---------------------------- MODULE Spec2Model ----------------------------
(***************************************************************************)
(* Telemetry relay of the robot backend (src/backend/app): the entity      *)
(* state cache (robot_state.py), the throttled sample store writes         *)
(* (telemetry_processor.py, logging_service.py), the WebSocket broadcast   *)
(* hub (websocket_server.py) and the MQTT message handlers (main.py).      *)
(*                                                                         *)
(* Coroutines run on one asyncio event loop: a task runs without           *)
(* interruption from one await that really suspends to the next.  The      *)
(* suspension points are db_session.commit() and websocket.send_text();    *)
(* the asyncio.Lock of the hub is never held across an await, so it is     *)
(* never contended and acquiring it does not suspend.                      *)
(***************************************************************************)
EXTENDS Integers, Sequences, FiniteSets, TLC

VARIABLES
    clock,               \* time.time() / datetime.utcnow(), in seconds
    states,              \* RobotStateCache._states : robot_id -> RobotState
    last_db_write,       \* TelemetryProcessor._last_db_write : key -> time
    telemetry_logs,      \* rows of table telemetry_logs, in commit order
    path_logs,           \* rows of table robot_path_logs
    battery_history,     \* rows of table battery_history
    error_logs,          \* rows of table error_logs
    active_connections,  \* WebSocketManager._active_connections
    broken,              \* connections whose send_text raises
    slow,                \* connections whose send_text never completes
    inbox,               \* per connection, the events its send_text delivered
    tasks,               \* the coroutines scheduled on the event loop
    held,                \* values the cache has returned to readers
    appended,            \* per robot, the errors added since the last clear
    events,              \* MQTTManager._events, the recorded messages
    unhandled,           \* exceptions that left MQTTManager._handle_message
    reply,               \* what the last REST or endpoint call returned
    unlocked,            \* the functions that touched a RobotState outside the lock
    running,             \* the connections whose /ws endpoint loop is running
    sim,                 \* a RobotSimulator: its fields, its lock, its threads
    mqtt,                \* MQTTManager: connection state and the start() call
    message_handlers,    \* MQTTManager._message_handlers and the dispatch in progress
    server               \* MQTTRobotServer (src/src/mqtt_server.py): its command queue

vars == <<clock, states, last_db_write, telemetry_logs, path_logs,
          battery_history, error_logs, active_connections, broken, slow,
          inbox, tasks, held, appended, events, unhandled, reply, unlocked,
          running, sim, mqtt, message_handlers, server>>

cacheVars == <<states, held, appended>>
storeVars == <<last_db_write, telemetry_logs, path_logs, battery_history, error_logs>>
hubVars   == <<active_connections, broken, slow, inbox>>
mqttVars  == <<events, unhandled>>
extVars   == <<sim, mqtt, message_handlers, server>>
apiVars   == <<reply, unlocked, running, extVars>>

-----------------------------------------------------------------------------
(* Bounds of the model *)

MaxBroadcasts == 3      \* broadcast calls made in the hub specification
MaxTicks      == 1      \* seconds that pass in the cache specification
MaxAppends    == 15     \* add_error calls between two clears (errors specification)
MaxFewAppends == 1      \* the same, where the errors list is not the subject
MaxHeld       == 1      \* values a reader keeps (snapshot specification)
MaxMessages   == 2      \* MQTT messages received (router specification)
MaxSamples    == 3      \* status messages received (throttle specification)
MaxElapsed    == 6      \* seconds that pass in the throttle specification
MaxArrivals   == 3      \* MQTT messages received (arrival specification)
MaxPoses      == 2      \* messages handled in the pose specification
MaxLimit      == 2      \* largest limit of a history query
MaxPublished  == 3      \* telemetry snapshots taken (simulator specification)
MaxReconnects == 12     \* unexpected disconnects in a row (connection specification)
MaxCommands   == 4      \* drive commands queued (polling server specification)
MaxCasts      == 1      \* broadcast calls made in the registry specification
MaxHistory    == 3      \* messages handled in the history specification
MaxErrorMessages == 11  \* error messages handled (error log specification)
StartTime     == 10     \* time.time() when the process starts

RobotIds  == {"r1", "r2"}

(* The connection objects and the order in which list(set) yields them. *)
Conns     == {"w1", "w2", "w3"}
ConnOrder == <<"w1", "w2", "w3">>

EmptyDict == [k \in {} |-> 0]
NoEvent   == [type |-> "", robot_id |-> "", src |-> 0]
NoReply   == [call |-> ""]

-----------------------------------------------------------------------------
(* Python helpers *)

\* dict.get(k, default)
Get(d, k, default) == IF k \in DOMAIN d THEN d[k] ELSE default

\* d.get(k): <<>> stands for None, <<v>> for the value v
Opt(d, k) == IF k \in DOMAIN d THEN <<d[k]>> ELSE <<>>

\* d[k] = v
Put(d, k, v) == [x \in DOMAIN d \cup {k} |-> IF x = k THEN v ELSE d[x]]

\* A decoded payload that is no JSON object (a string, a number, a list) is the
\* record [nondict |-> value]; isinstance(payload, dict) is then false.
IsDict(payload) == "nondict" \notin DOMAIN payload

\* the last n elements of a sequence: s[-n:]
LastN(s, n) == IF Len(s) <= n THEN s ELSE SubSeq(s, Len(s) - n + 1, Len(s))

\* list(self._active_connections): the members of reg in iteration order
RECURSIVE ListOf(_, _)
ListOf(reg, order) ==
    IF order = <<>> THEN <<>>
    ELSE IF Head(order) \in reg
         THEN <<Head(order)>> \o ListOf(reg, Tail(order))
         ELSE ListOf(reg, Tail(order))

\* the elements of a sequence
Range(s) == {s[i] : i \in 1..Len(s)}

\* the indices of the rows of one robot in a table
RowsAbout(table, robot_id) == {k \in 1..Len(table) : table[k].robot_id = robot_id}

-----------------------------------------------------------------------------
(* RobotState and RobotStateCache (src/backend/app/robot_state.py) *)

MaxErrorsKept == 10     \* add_error keeps the last 10 errors

\* float(v) of a JSON number keeps its value
Float(v) == v

\* A JSON value that is no number where the code expects one (a string such as
\* "low") is the integer BadNumber: float() of it raises ValueError, comparing it
\* with a number raises TypeError.
BadNumber == 999

FloatRaises(v) == v = BadNumber

\* datetime.isoformat() + "Z"
IsoFormat(t) == <<t, "Z">>

\* RobotState(robot_id=robot_id): the dataclass defaults
RobotState(robot_id, now) ==
    [robot_id     |-> robot_id,
     mode         |-> "UNKNOWN",
     status       |-> "UNKNOWN",
     battery      |-> 0,
     pose         |-> [x |-> 0, y |-> 0, theta |-> 0],
     last_updated |-> now,
     errors       |-> <<>>]

\* the assignment self.battery = float(data["battery"])
Battery(v) == Float(v)

\* the three assignments to self.pose under `if "pose" in data`
PoseFrom(pose, pose_data) ==
    [x     |-> Float(Get(pose_data, "x", 0)),
     y     |-> Float(Get(pose_data, "y", 0)),
     theta |-> Float(Get(pose_data, "theta", 0))]

\* does a float() of update_from_telemetry raise on this message?
UpdateRaises(data) ==
    \/ "battery" \in DOMAIN data /\ FloatRaises(data.battery)
    \/ "pose" \in DOMAIN data
          /\ \E k \in DOMAIN data.pose \cap {"x", "y", "theta"} : FloatRaises(data.pose[k])

\* the assignments to self.pose made before the first float() that raises
PoseUntilRaise(pose, pose_data) ==
    LET bad(k) == k \in DOMAIN pose_data /\ FloatRaises(pose_data[k])
        new    == PoseFrom(pose, pose_data)
    IN [x     |-> IF bad("x") THEN pose.x ELSE new.x,
        y     |-> IF bad("x") \/ bad("y") THEN pose.y ELSE new.y,
        theta |-> IF bad("x") \/ bad("y") \/ bad("theta") THEN pose.theta ELSE new.theta]

\* update_from_telemetry up to the float() that raises: the assignments before it
\* stay, last_updated is not reached
UpdateUntilRaise(st, data) ==
    LET s1 == [st EXCEPT
                  !.mode   = IF "mode" \in DOMAIN data THEN data.mode ELSE @,
                  !.status = IF "status" \in DOMAIN data THEN data.status ELSE @]
    IN IF "battery" \in DOMAIN data /\ FloatRaises(data.battery) THEN s1
       ELSE [s1 EXCEPT
                !.battery = IF "battery" \in DOMAIN data THEN Battery(data.battery) ELSE @,
                !.pose    = PoseUntilRaise(@, data.pose)]

\* RobotState.update_from_telemetry
update_from_telemetry_mutant(st, data, now) ==
    [RobotState(st.robot_id, now) EXCEPT
        !.mode    = IF "mode" \in DOMAIN data THEN data.mode ELSE @,
        !.status  = IF "status" \in DOMAIN data THEN data.status ELSE @,
        !.battery = IF "battery" \in DOMAIN data THEN Battery(data.battery) ELSE @,
        !.pose    = IF "pose" \in DOMAIN data THEN PoseFrom(@, data.pose) ELSE @]

update_from_telemetry(st, data, now) ==
    IF UpdateRaises(data) THEN UpdateUntilRaise(st, data)
    ELSE [st EXCEPT
        !.mode    = IF "mode" \in DOMAIN data THEN data.mode ELSE @,
        !.status  = IF "status" \in DOMAIN data THEN data.status ELSE @,
        !.battery = IF "battery" \in DOMAIN data THEN Battery(data.battery) ELSE @,
        !.pose    = IF "pose" \in DOMAIN data THEN PoseFrom(@, data.pose) ELSE @,
        !.last_updated = now]

\* self._states[robot_id] = RobotState(robot_id=robot_id), when absent
Materialize(sts, robot_id, now) ==
    IF robot_id \in DOMAIN sts THEN sts
    ELSE [id \in DOMAIN sts \cup {robot_id} |->
            IF id = robot_id THEN RobotState(robot_id, now) ELSE sts[id]]

\* RobotStateCache.update_state: the new _states
update_state(sts, robot_id, telemetry, now) ==
    LET made == Materialize(sts, robot_id, now) IN
    [made EXCEPT ![robot_id] = update_from_telemetry(@, telemetry, now)]

\* the eviction and append of add_error on one errors list
PushErrorMutant(errors, error) == Append(errors, error)

PushError(errors, error) ==
    Append(IF Len(errors) >= MaxErrorsKept THEN Tail(errors) ELSE errors, error)

\* RobotStateCache.add_error: the new _states
add_error(sts, robot_id, error, now) ==
    LET made == Materialize(sts, robot_id, now) IN
    [made EXCEPT ![robot_id].errors = PushError(@, error)]

\* RobotStateCache.clear_errors: the new _states
clear_errors_mutant(sts, robot_id) ==
    [id \in DOMAIN sts |-> [sts[id] EXCEPT !.errors = <<>>]]

clear_errors(sts, robot_id) ==
    IF robot_id \in DOMAIN sts THEN [sts EXCEPT ![robot_id].errors = <<>>] ELSE sts

\* RobotState.to_dict: the scalars are copied, "errors" is the list object itself
to_dict(st) ==
    [robot_id     |-> st.robot_id,
     mode         |-> st.mode,
     status       |-> st.status,
     battery      |-> st.battery,
     pose         |-> [x |-> st.pose.x, y |-> st.pose.y, theta |-> st.pose.theta],
     last_updated |-> IsoFormat(st.last_updated),
     errors       |-> st.errors]

\* What a reader holds after RobotStateCache.get_state: the cached object itself.
get_state(sts, robot_id) ==
    [kind |-> "RobotState", robot_id |-> robot_id, seen |-> sts[robot_id]]

\* What a reader holds of one entry of RobotStateCache.get_all_states: the dict
\* that to_dict built.
get_all_states(sts, robot_id) ==
    [kind |-> "dict", robot_id |-> robot_id, seen |-> to_dict(sts[robot_id])]

\* What the reader finds now in a value it was given: the cached object is the
\* live one, and the dict's "errors" is the live list (mutated in place by
\* append, pop and clear).
Deref(h) ==
    IF h.kind = "RobotState" THEN states[h.robot_id]
    ELSE [h.seen EXCEPT !.errors = states[h.robot_id].errors]

\* does a float() of process_pose raise on this pose?
PoseRaises(pose) == \E k \in {"x", "y", "theta"} : FloatRaises(pose[k])

\* process_pose's cache update: the fields of the object get_state returned,
\* assigned one by one up to a float() that raises
pose_update(sts, robot_id, pose, now) ==
    IF robot_id \in DOMAIN sts
    THEN IF PoseRaises(pose)
         THEN [sts EXCEPT ![robot_id].pose = PoseUntilRaise(@, pose)]
         ELSE [sts EXCEPT ![robot_id].pose = [x     |-> Float(pose.x),
                                              y     |-> Float(pose.y),
                                              theta |-> Float(pose.theta)],
                          ![robot_id].last_updated = now]
    ELSE sts

(* Calls made on the cache, one at a time under its lock *)

UpdateStateCall(robot_id, telemetry) ==
    /\ states' = update_state(states, robot_id, telemetry, clock)
    /\ UNCHANGED <<apiVars, mqttVars, clock, storeVars, hubVars, tasks, held, appended>>

AddErrorCall(robot_id, error) ==
    /\ states' = add_error(states, robot_id, error, clock)
    /\ appended' = [appended EXCEPT ![robot_id] = Append(@, error)]
    /\ UNCHANGED <<apiVars, mqttVars, clock, storeVars, hubVars, tasks, held>>

ClearErrorsCall(robot_id) ==
    /\ states' = clear_errors(states, robot_id)
    /\ appended' = [appended EXCEPT ![robot_id] = <<>>]
    /\ UNCHANGED <<apiVars, mqttVars, clock, storeVars, hubVars, tasks, held>>

\* RobotStateCache.clear_errors subscripts _states only after the membership
\* test, so it raises no KeyError for an id that is not cached.
ClearRaises(sts, robot_id) == FALSE

\* LoggingService.clear_robot_errors: the cache call, then a log line.
\* `known` in the reply is not returned by the code: it tells whether the id was
\* cached when the call was made.
clear_robot_errors(robot_id) ==
    /\ states' = clear_errors(states, robot_id)
    /\ appended' = [appended EXCEPT ![robot_id] = <<>>]
    /\ reply' = [call |-> "clear_robot_errors", robot_id |-> robot_id,
                 raised |-> ClearRaises(states, robot_id),
                 known |-> robot_id \in DOMAIN states]
    /\ UNCHANGED <<unlocked, running, extVars, mqttVars, clock, storeVars, hubVars, tasks, held>>

PoseUpdateCall(robot_id, pose) ==
    /\ states' = pose_update(states, robot_id, pose, clock)
    /\ unlocked' = IF robot_id \in DOMAIN states THEN unlocked \cup {"process_pose"}
                   ELSE unlocked
    /\ UNCHANGED <<reply, running, extVars, mqttVars, clock, storeVars, hubVars, tasks, held, appended>>

GetStateCall(robot_id) ==
    /\ robot_id \in DOMAIN states
    /\ held' = Append(held, get_state(states, robot_id))
    /\ UNCHANGED <<apiVars, mqttVars, clock, states, appended, storeVars, hubVars, tasks>>

GetAllStatesCall(robot_id) ==
    /\ robot_id \in DOMAIN states
    /\ held' = Append(held, get_all_states(states, robot_id))
    /\ UNCHANGED <<apiVars, mqttVars, clock, states, appended, storeVars, hubVars, tasks>>

\* GET /robot/state/{robot_id}: get_state returns the cached object and releases
\* the lock; to_dict then reads its fields
get_robot_state(robot_id) ==
    /\ reply' = IF robot_id \in DOMAIN states
                THEN [call |-> "get_robot_state", status |-> 200,
                      body |-> to_dict(states[robot_id])]
                ELSE [call |-> "get_robot_state", status |-> 404]
    /\ unlocked' = IF robot_id \in DOMAIN states THEN unlocked \cup {"get_robot_state"}
                   ELSE unlocked
    /\ UNCHANGED <<running, extVars, mqttVars, clock, cacheVars, storeVars, hubVars, tasks>>

\* GET /robot/states: get_all_states calls to_dict inside the lock
get_all_robot_states ==
    /\ reply' = [call |-> "get_all_robot_states", status |-> 200,
                 body |-> [id \in DOMAIN states |-> to_dict(states[id])]]
    /\ UNCHANGED <<unlocked, running, extVars, mqttVars, clock, cacheVars, storeVars, hubVars, tasks>>

\* time passes
Tick ==
    /\ clock' = clock + 1
    /\ UNCHANGED <<apiVars, mqttVars, cacheVars, storeVars, hubVars, tasks>>

-----------------------------------------------------------------------------
(* A coroutine on the event loop.  pc is the await it is suspended in. *)

NewTask(cat, topic, payload) ==
    [cat          |-> cat,        \* "bcast" or the handler's category
     topic        |-> topic,
     payload      |-> payload,
     pc           |-> "ready",    \* ready, commit, send, done
     robot_id     |-> "",
     cur          |-> NoEvent,    \* the message of the broadcast call in progress
     evq          |-> <<>>,       \* the broadcast calls the coroutine still makes
     pending      |-> <<>>,       \* rest of `connections` in broadcast's for loop
     snap         |-> {},         \* `connections` of the broadcast call in progress
     disconnected |-> {},         \* local `disconnected` of that call
     raised       |-> {},         \* the connections whose send raised in that call
     alone        |-> TRUE,       \* nothing else changed the registry during it
     count        |-> -1,         \* get_connection_count() right after it returned
     now          |-> 0,          \* current_time read by the throttle
     admitted     |-> "none",     \* the throttle's decision: admitted, suppressed
     session      |-> <<>>,       \* the rows added to db_session, not yet committed
     commit       |-> "none",     \* how db_session.commit() ended: ok, failed
     error        |-> "none",     \* where the handler raised: cache, store, commit, build
     exc          |-> FALSE]      \* an exception left the coroutine

\* handle_robot_status builds health_telemetry after broadcast_telemetry has
\* returned: payload.get("health", 100) > 70 raises on a health that is no number.
BuildRaises(cat, payload) ==
    /\ cat = "status"
    /\ IsDict(payload)
    /\ "health" \in DOMAIN payload
    /\ payload.health = BadNumber

\* Does an exception raised inside a handler leave the handler?  Every handler
\* body is inside try/except Exception.
EscapesMutant(error) == error # "none"

Escapes(error) == FALSE

\* The coroutine has made its last broadcast call and runs to its end.
Finish(tk) ==
    LET error == IF tk.error = "none" /\ BuildRaises(tk.cat, tk.payload)
                 THEN "build" ELSE tk.error
    IN [tk EXCEPT !.pc = "done", !.error = error, !.exc = Escapes(error)]

-----------------------------------------------------------------------------
(* WebSocketManager (src/backend/app/websocket_server.py) *)

\* get_connection_count()
get_connection_count == Cardinality(active_connections)

\* One `await websocket.send_text(message_str)` of broadcast's for loop, with its
\* except clauses: a raising send puts the connection in `disconnected`.
SendInbox(inb, ws, ev) ==
    IF ws \in broken \cup slow THEN inb ELSE [inb EXCEPT ![ws] = Append(@, ev)]

SendDisconnected(disc, ws) ==
    IF ws \in broken THEN disc \cup {ws} ELSE disc

\* the sends that raised, as the connection saw them
SendRaised(rs, ws) ==
    IF ws \in broken THEN rs \cup {ws} ELSE rs

\* The end of broadcast: self._active_connections -= disconnected
CleanUpMutant(reg, disconnected) == reg

CleanUp(reg, disconnected) == reg \ disconnected

\* The coroutine runs on from `reg` making the broadcast calls evq, up to its
\* next suspension.  broadcast returns at once on an empty registry; otherwise it
\* copies the registry and suspends in the first send.
EnterBroadcast(tk, evq, reg) ==
    IF evq = <<>> \/ reg = {}
    THEN Finish([tk EXCEPT !.evq = <<>>, !.pending = <<>>,
                           !.count = Cardinality(reg)])
    ELSE LET connections == ListOf(reg, ConnOrder) IN
         [tk EXCEPT !.pc = "send", !.cur = Head(evq), !.evq = Tail(evq),
                    !.snap = reg, !.alone = TRUE,
                    !.pending = Tail(connections),
                    !.disconnected = SendDisconnected({}, Head(connections)),
                    !.raised = SendRaised({}, Head(connections))]

EnterInbox(inb, evq, reg) ==
    IF evq = <<>> \/ reg = {} THEN inb
    ELSE SendInbox(inb, Head(ListOf(reg, ConnOrder)), Head(evq))

\* Every other task in a broadcast call sees the registry change under it.
Interfere(ts, i) ==
    [j \in 1..Len(ts) |-> IF j # i /\ ts[j].pc = "send"
                          THEN [ts[j] EXCEPT !.alone = FALSE] ELSE ts[j]]

\* A coroutine calls broadcast(message): the call runs to its first send.
broadcast ==
    /\ Len(tasks) < MaxBroadcasts
    /\ LET i  == Len(tasks) + 1
           ev == [type |-> "msg", robot_id |-> "", src |-> i]
       IN /\ tasks' = Append(tasks,
                        EnterBroadcast(NewTask("bcast", <<>>, EmptyDict), <<ev>>,
                                       active_connections))
          /\ inbox' = EnterInbox(inbox, <<ev>>, active_connections)
    /\ UNCHANGED <<apiVars, mqttVars, clock, cacheVars, storeVars, active_connections, broken, slow>>

\* the connection whose send_text the task is suspended in
Waiting(tk) ==
    LET connections == ListOf(tk.snap, ConnOrder)
    IN connections[Len(connections) - Len(tk.pending)]

\* The task suspended in a send resumes, once that send has completed or raised:
\* the next send of the for loop, or the clean-up after the last one and whatever
\* the coroutine does next.
ResumeSend(i) ==
    /\ tasks[i].pc = "send"
    /\ Waiting(tasks[i]) \notin slow
    /\ LET tk == tasks[i] IN
       IF tk.pending # <<>>
       THEN /\ tasks' = [tasks EXCEPT ![i] =
                           [tk EXCEPT !.pending = Tail(tk.pending),
                                      !.disconnected =
                                          SendDisconnected(tk.disconnected, Head(tk.pending)),
                                      !.raised = SendRaised(tk.raised, Head(tk.pending))]]
            /\ inbox' = SendInbox(inbox, Head(tk.pending), tk.cur)
            /\ UNCHANGED active_connections
       ELSE LET reg == IF tk.disconnected # {}
                       THEN CleanUp(active_connections, tk.disconnected)
                       ELSE active_connections
                ret == [tk EXCEPT !.count = Cardinality(reg)]
                ts  == IF reg # active_connections THEN Interfere(tasks, i) ELSE tasks
            IN /\ active_connections' = reg
               /\ tasks' = [ts EXCEPT ![i] =
                              IF tk.evq = <<>> THEN Finish(ret)
                              ELSE EnterBroadcast(ret, tk.evq, reg)]
               /\ inbox' = EnterInbox(inbox, tk.evq, reg)
    /\ UNCHANGED <<apiVars, mqttVars, clock, cacheVars, storeVars, broken, slow>>

\* Does the coroutine hold WebSocketManager._lock while it is suspended?  The two
\* `async with self._lock` blocks of broadcast (the copy, the clean-up) contain no
\* await, so the lock is released before the first send and taken again only
\* after the last.
HoldsLockMutant(tk) == tk.pc = "send"

HoldsLock(tk) == FALSE

LockHeld == \E i \in 1..Len(tasks) : HoldsLock(tasks[i])

\* connect(websocket): accept, then register under the lock
connect(ws) ==
    /\ ~LockHeld
    /\ ws \notin active_connections
    /\ ws \notin broken
    /\ inbox[ws] = <<>>
    /\ active_connections' = active_connections \cup {ws}
    /\ running' = running \cup {ws}
    /\ tasks' = Interfere(tasks, 0)
    /\ UNCHANGED <<reply, unlocked, extVars, mqttVars, clock, cacheVars, storeVars, broken, slow, inbox>>

\* self._active_connections.discard(websocket): the registry afterwards, and
\* whether the call raised
discard_mutant(reg, ws) == [reg |-> reg \ {ws}, raised |-> ws \notin reg]

discard(reg, ws) == [reg |-> reg \ {ws}, raised |-> FALSE]

\* disconnect(websocket): discard under the lock.  `removed` in the reply is not
\* returned by the code: it tells a call that removed something from one that
\* found nothing to remove.
disconnect(ws) ==
    /\ ~LockHeld
    /\ active_connections' = discard(active_connections, ws).reg
    /\ reply' = [call |-> "disconnect", ws |-> ws,
                 raised |-> discard(active_connections, ws).raised,
                 removed |-> ws \in active_connections]
    /\ tasks' = IF ws \in active_connections THEN Interfere(tasks, 0) ELSE tasks
    /\ UNCHANGED <<unlocked, running, extVars, mqttVars, clock, cacheVars, storeVars, broken, slow, inbox>>

\* The registry after the /ws endpoint loop of ws was left by exception exc:
\* `except WebSocketDisconnect` calls disconnect; any other exception leaves
\* websocket_endpoint with nothing done.
EndpointExitMutant(reg, ws, exc) == reg

EndpointExit(reg, ws, exc) ==
    IF exc = "WebSocketDisconnect" THEN discard(reg, ws).reg ELSE reg

\* websocket_endpoint ends: receive_json raised WebSocketDisconnect, or handling
\* what was received raised something else (data.get on JSON that is no object).
\* Either way the connection is closed, and send_text on it raises from now on.
\* `registered` in the reply is not returned by the code: it tells whether the
\* connection was in the registry when the loop was left.
websocket_endpoint_exit(ws, exc) ==
    /\ ws \in running
    /\ exc = "WebSocketDisconnect" => ~LockHeld
    /\ running' = running \ {ws}
    /\ broken' = broken \cup {ws}
    /\ active_connections' = EndpointExit(active_connections, ws, exc)
    /\ tasks' = IF active_connections' # active_connections
                THEN Interfere(tasks, 0) ELSE tasks
    /\ reply' = [call |-> "websocket_endpoint", ws |-> ws, exc |-> exc,
                 registered |-> ws \in active_connections]
    /\ UNCHANGED <<unlocked, extVars, mqttVars, clock, cacheVars, storeVars, slow, inbox>>

\* The peer of a connection goes away: from now on send_text raises.
Break(ws) ==
    /\ ws \notin broken
    /\ broken' = broken \cup {ws}
    /\ UNCHANGED <<apiVars, mqttVars, clock, cacheVars, storeVars, active_connections, slow, inbox, tasks>>

-----------------------------------------------------------------------------
(* TelemetryProcessor (telemetry_processor.py), LoggingService                *)
(* (logging_service.py) and the MQTT message handlers (main.py)               *)

MinWriteInterval == 5   \* TelemetryProcessor._min_write_interval

\* json.dumps(payload)
JsonDumps(payload) == <<"json", payload>>

\* the keys of _last_db_write: robot_id and f"{robot_id}_pose"
Key(robot_id)     == <<robot_id>>
PoseKey(robot_id) == <<robot_id, "_pose">>

\* fnmatch.fnmatch(topic, "robot/<cat>/*"), the topic given as its parts
Matches(topic, cat) ==
    Len(topic) >= 3 /\ topic[1] = "robot" /\ topic[2] = cat

\* parts[-1] if len(parts) > 2 else payload.get("robot_id", "unknown")
RobotIdOf(topic, payload) ==
    IF Len(topic) > 2 THEN topic[Len(topic)] ELSE Get(payload, "robot_id", "unknown")

\* if current_time - last_write < self._min_write_interval: return
ThrottledMutant(now, last_write) == FALSE

Throttled(now, last_write) == now - last_write < MinWriteInterval

\* all(k in pose for k in ["x", "y", "theta"])
HasPose(pose) == {"x", "y", "theta"} \subseteq DOMAIN pose

\* the rows process_telemetry adds to the session
StatusRows(robot_id, data, now) ==
    LET hasPose == "pose" \in DOMAIN data /\ data.pose # EmptyDict
        telemetry_log ==
            [table |-> "telemetry_logs", robot_id |-> robot_id,
             mode |-> Opt(data, "mode"), status |-> Opt(data, "status"),
             battery_level |-> Opt(data, "battery"),
             x |-> IF hasPose THEN Opt(data.pose, "x") ELSE <<>>,
             y |-> IF hasPose THEN Opt(data.pose, "y") ELSE <<>>,
             theta |-> IF hasPose THEN Opt(data.pose, "theta") ELSE <<>>,
             raw_data |-> JsonDumps(data), timestamp |-> now]
        path_log ==
            IF hasPose /\ HasPose(data.pose)
            THEN <<[table |-> "robot_path_logs", robot_id |-> robot_id,
                    x |-> Float(data.pose.x), y |-> Float(data.pose.y),
                    theta |-> Float(data.pose.theta), timestamp |-> now]>>
            ELSE <<>>
        battery ==
            IF "battery" \in DOMAIN data
            THEN <<[table |-> "battery_history", robot_id |-> robot_id,
                    battery_level |-> Float(data.battery), timestamp |-> now]>>
            ELSE <<>>
    IN <<telemetry_log>> \o path_log \o battery

\* the row process_pose adds to the session
PoseRows(robot_id, pose, now) ==
    <<[table |-> "robot_path_logs", robot_id |-> robot_id,
       x |-> Float(pose.x), y |-> Float(pose.y), theta |-> Float(pose.theta),
       timestamp |-> now]>>

\* the row log_robot_error adds to the session
ErrorRows(robot_id, error_data, now) ==
    <<[table |-> "error_logs", robot_id |-> robot_id,
       error_type |-> Get(error_data, "error_type", "UNKNOWN"),
       error_message |-> Get(error_data, "message", "No message provided"),
       severity |-> Get(error_data, "severity", "ERROR"), timestamp |-> now]>>

\* f"[{error_type}] {error_message}"
ErrorString(error_type, error_message) == <<"[", error_type, "] ", error_message>>

\* the rows of one table among those a commit writes
RECURSIVE RowsOf(_, _)
RowsOf(session, table) ==
    IF session = <<>> THEN <<>>
    ELSE IF Head(session).table = table
         THEN <<Head(session)>> \o RowsOf(Tail(session), table)
         ELSE RowsOf(Tail(session), table)

\* The messages of the handlers' broadcast calls.  src, the index of the handler's
\* coroutine, is not part of the message: it tells the messages of two handlers
\* apart.
broadcast_telemetry(robot_id, telemetry, i) ==
    [type |-> "telemetry", robot_id |-> robot_id, data |-> telemetry, src |-> i]

broadcast_pose_mutant(robot_id, pose, i) ==
    [type |-> "pose_update", robot_id |-> robot_id, data |-> pose, src |-> i]

broadcast_pose(robot_id, pose, i) ==
    [type |-> "pose", robot_id |-> robot_id, data |-> pose, src |-> i]

broadcast_error(robot_id, error, i) ==
    [type |-> "error", robot_id |-> robot_id, error |-> error, src |-> i]

broadcast_joints(robot_id, joints_data, i) ==
    [type |-> "joints", robot_id |-> robot_id, data |-> joints_data, src |-> i]

broadcast_gps(robot_id, gps_data, i) ==
    [type |-> "gps", robot_id |-> robot_id, data |-> gps_data, src |-> i]

\* theta * 57.2958, to four decimal places
Degrees(theta) == theta * 572958

\* health_telemetry of handle_robot_status (the fields taken from the payload)
HealthTelemetry(robot_id, payload, i) ==
    [type |-> "health_telemetry", robot_id |-> robot_id,
     battery |-> [level |-> Get(payload, "battery", 0), health |-> Get(payload, "health", 100)],
     thermal |-> [cpu_temp |-> Get(payload, "temperature", 0),
                  motor_temp |-> Get(payload, "temperature", 0)],
     health_score |-> Get(payload, "health", 100),
     health_status |-> IF Get(payload, "health", 100) > 70 THEN "HEALTHY"
                       ELSE IF Get(payload, "health", 100) > 40 THEN "WARNING"
                       ELSE "CRITICAL",
     src |-> i]

\* control_state of handle_robot_status; <<"upper", m>> is m.upper()
ControlState(robot_id, payload, i) ==
    LET pose == Get(payload, "pose", EmptyDict) IN
    [type |-> "control_state", robot_id |-> robot_id,
     mode |-> <<"upper", Get(payload, "mode", "STANDBY")>>,
     position |-> [x |-> Get(pose, "x", 0), y |-> Get(pose, "y", 0),
                   heading |-> Degrees(Get(pose, "theta", 0))],
     src |-> i]

\* pose_update of handle_robot_status and of handle_robot_gps
PoseUpdate(robot_id, gps_data, heading, i) ==
    [type |-> "pose_update", robot_id |-> robot_id,
     lat |-> Get(gps_data, "latitude", 0), lon |-> Get(gps_data, "longitude", 0),
     heading |-> heading, src |-> i]

\* handle_robot_status: broadcast_telemetry, health_telemetry, control_state and,
\* with GPS coordinates in the payload, pose_update
StatusEvents(i, robot_id, payload) ==
    LET gps_data == Get(payload, "gps", EmptyDict) IN
    IF BuildRaises("status", payload) THEN <<broadcast_telemetry(robot_id, payload, i)>>
    ELSE <<broadcast_telemetry(robot_id, payload, i), HealthTelemetry(robot_id, payload, i),
           ControlState(robot_id, payload, i)>>
         \o (IF Get(gps_data, "latitude", 0) # 0 /\ Get(gps_data, "longitude", 0) # 0
             THEN <<PoseUpdate(robot_id, gps_data,
                               Degrees(Get(Get(payload, "pose", EmptyDict), "theta", 0)), i)>>
             ELSE <<>>)

\* the broadcast calls of the handler of each category
EventsOf(cat, i, robot_id, payload) ==
    CASE cat = "status"  -> StatusEvents(i, robot_id, payload)
      [] cat = "pose"    -> <<broadcast_pose(robot_id, payload, i)>>
      [] cat = "errors"  -> <<broadcast_error(robot_id, payload, i)>>
      [] cat = "joints"  -> <<broadcast_joints(robot_id, payload, i)>>
      [] cat = "gps"     -> <<broadcast_gps(robot_id, payload, i),
                              PoseUpdate(robot_id, payload, 0, i)>>
      [] cat = "battery" -> <<[type |-> "battery", robot_id |-> robot_id,
                               data |-> payload, src |-> i]>>
      [] cat = "health"  -> <<[type |-> "health", robot_id |-> robot_id,
                               data |-> payload, src |-> i]>>

\* What is left of the handler after db_session.commit(), or anything else inside
\* the processor's try block, raised: process_telemetry rolls back and raises
\* again, which handle_robot_status catches after skipping its broadcasts;
\* process_pose and log_robot_error roll back and return.
AfterFailedCommit(cat, evq) == IF cat = "status" THEN <<>> ELSE evq

\* The cache update each handler makes before anything is written.
\* process_pose updates an entity only when get_state finds it.
CacheUpdate(cat, sts, robot_id, payload, now) ==
    CASE cat = "status" -> update_state(sts, robot_id, payload, now)
      [] cat = "pose" ->
            LET pose == Get(payload, "pose", payload) IN
            IF HasPose(pose) THEN pose_update(sts, robot_id, pose, now) ELSE sts
      [] cat = "errors" ->
            add_error(sts, robot_id,
                      ErrorString(Get(payload, "error_type", "UNKNOWN"),
                                  Get(payload, "message", "No message provided")), now)
      [] OTHER -> sts

\* the entry of _last_db_write the handler's write is throttled on
ThrottleKeyMutant(cat, robot_id) == Key(robot_id)

ThrottleKey(cat, robot_id) == IF cat = "pose" THEN PoseKey(robot_id) ELSE Key(robot_id)

\* Does the handler go on to a store write at all?  Status samples and complete
\* poses are throttled, error records are always written, the other categories
\* are never written.
WritesMutant(cat, payload) ==
    CASE cat \in {"status", "errors"} -> "throttled"
      [] cat = "pose"   -> IF HasPose(Get(payload, "pose", payload))
                           THEN "throttled" ELSE "never"
      [] OTHER          -> "never"

WritesGpsMutant(cat, payload) ==
    CASE cat \in {"status", "gps"} -> "throttled"
      [] cat = "pose"   -> IF HasPose(Get(payload, "pose", payload))
                           THEN "throttled" ELSE "never"
      [] cat = "errors" -> "always"
      [] OTHER          -> "never"

Writes(cat, payload) ==
    CASE cat = "status" -> "throttled"
      [] cat = "pose"   -> IF HasPose(Get(payload, "pose", payload))
                           THEN "throttled" ELSE "never"
      [] cat = "errors" -> "always"
      [] OTHER          -> "never"

\* The functions that, while the handler runs, read or assign fields of a cached
\* RobotState without holding RobotStateCache._lock.  update_state and add_error
\* work inside `with self._lock`; process_pose takes the object from get_state,
\* which releases the lock on return, and assigns its fields afterwards.
OutsideLockMutant(cat, sts, robot_id, payload) == {}

OutsideLock(cat, sts, robot_id, payload) ==
    IF cat = "pose" /\ HasPose(Get(payload, "pose", payload)) /\ robot_id \in DOMAIN sts
    THEN {"process_pose"} ELSE {}

\* does the handler's cache update raise?
CacheRaises(cat, sts, robot_id, payload) ==
    CASE cat = "status" -> UpdateRaises(payload)
      [] cat = "pose"   -> LET pose == Get(payload, "pose", payload) IN
                           HasPose(pose) /\ robot_id \in DOMAIN sts /\ PoseRaises(pose)
      [] OTHER          -> FALSE

\* How far the handler gets before its broadcasts: it raised in the cache update
\* ("raised"), it writes nothing ("none"), the throttle suppressed the write
\* ("suppressed"), the throttle admitted it but building the row raised
\* ("raised_row", process_pose on a pose not cached before), or the rows are in
\* the session and the commit is awaited ("admitted").
Outcome(cat, sts, ldw, robot_id, payload, now) ==
    LET w == Writes(cat, payload) IN
    IF CacheRaises(cat, sts, robot_id, payload) THEN "raised"
    ELSE IF w = "never" THEN "none"
    ELSE IF w = "throttled" /\ Throttled(now, Get(ldw, ThrottleKey(cat, robot_id), 0))
         THEN "suppressed"
    ELSE IF cat = "pose" /\ PoseRaises(Get(payload, "pose", payload)) THEN "raised_row"
    ELSE "admitted"

RowsFor(cat, robot_id, payload, now) ==
    CASE cat = "status" -> StatusRows(robot_id, payload, now)
      [] cat = "pose"   -> PoseRows(robot_id, Get(payload, "pose", payload), now)
      [] cat = "errors" -> ErrorRows(robot_id, payload, now)
      [] OTHER          -> <<>>

\* self._last_db_write[key] = current_time, in the same run of the coroutine as
\* the check: no await lies between lines 47 and 54 (131 and 139)
SetLastWriteMutant(ldw, key, now) == ldw

SetLastWrite(ldw, key, now) == Put(ldw, key, now)

\* the task list with tk as its i-th coroutine
Place(ts, i, tk) == IF i = Len(ts) + 1 THEN Append(ts, tk) ELSE [ts EXCEPT ![i] = tk]

\* The handler coroutine of category cat, the i-th scheduled, runs from its
\* beginning to its first suspension: the commit of an admitted write, or the
\* first send of its first broadcast.
Begin(i, cat, topic, payload) ==
    /\ LET tk0 == NewTask(cat, topic, payload)
       IN IF ~IsDict(payload)
          THEN /\ tasks' = Place(tasks, i, Finish(tk0))
               /\ UNCHANGED <<states, appended, last_db_write, inbox, unlocked>>
          ELSE LET robot_id == RobotIdOf(topic, payload)
                   now == clock
                   key == ThrottleKey(cat, robot_id)
                   out == Outcome(cat, states, last_db_write, robot_id, payload, now)
                   evq == EventsOf(cat, i, robot_id, payload)
                   tk1 == [tk0 EXCEPT !.robot_id = robot_id, !.now = now]
               IN /\ states' = CacheUpdate(cat, states, robot_id, payload, now)
                  /\ unlocked' = unlocked \cup OutsideLock(cat, states, robot_id, payload)
                  /\ appended' = IF cat = "errors"
                                 THEN [appended EXCEPT ![robot_id] = Append(@, states'[robot_id].errors[Len(states'[robot_id].errors)])]
                                 ELSE appended
                  /\ last_db_write' = IF out \in {"admitted", "raised_row"}
                                         /\ Writes(cat, payload) = "throttled"
                                      THEN SetLastWrite(last_db_write, key, now)
                                      ELSE last_db_write
                  /\ IF out = "admitted"
                     THEN /\ tasks' = Place(tasks, i,
                                 [tk1 EXCEPT !.admitted = "admitted", !.pc = "commit",
                                             !.evq = evq,
                                             !.session = RowsFor(cat, robot_id, payload, now)])
                          /\ UNCHANGED inbox
                     ELSE LET error == CASE out = "raised"     -> "cache"
                                         [] out = "raised_row" -> "store"
                                         [] OTHER              -> "none"
                              rest  == IF error = "none" THEN evq
                                       ELSE AfterFailedCommit(cat, evq)
                              tk2   == [tk1 EXCEPT
                                           !.error = error,
                                           !.admitted =
                                               CASE out = "suppressed" -> "suppressed"
                                                 [] out = "raised_row" -> "admitted"
                                                 [] OTHER              -> "none"]
                          IN /\ tasks' = Place(tasks, i,
                                              EnterBroadcast(tk2, rest, active_connections))
                             /\ inbox' = EnterInbox(inbox, rest, active_connections)
    /\ UNCHANGED <<clock, held, telemetry_logs, path_logs, battery_history, error_logs,
                   active_connections, broken, slow, reply, running, extVars>>

\* An MQTT message arrives on a topic that the handler of category cat is
\* registered for; the handler coroutine is scheduled and runs to its first
\* suspension.
Handle(cat, topic, payload) ==
    /\ Matches(topic, cat)
    /\ Begin(Len(tasks) + 1, cat, topic, payload)
    /\ UNCHANGED mqttVars

\* The same in two steps.  The MQTT thread schedules the handler coroutine on the
\* event loop (run_coroutine_threadsafe) ...
Dispatch(cat, topic, payload) ==
    /\ Matches(topic, cat)
    /\ tasks' = Append(tasks, NewTask(cat, topic, payload))
    /\ UNCHANGED <<apiVars, mqttVars, clock, cacheVars, storeVars, hubVars>>

\* ... and the event loop, which runs what was scheduled first in, first out,
\* begins it.
NextToRunMutant(ts, i) == TRUE

NextToRun(ts, i) == \A j \in 1..(i - 1) : ts[j].pc # "ready"

Start(i) ==
    /\ tasks[i].pc = "ready"
    /\ NextToRun(tasks, i)
    /\ Begin(i, tasks[i].cat, tasks[i].topic, tasks[i].payload)
    /\ UNCHANGED mqttVars

(* MQTTManager._handle_message (mqtt_manager.py).  The bytes of an MQTT payload
   are given by what decoding makes of them:
     [kind |-> "object", value |-> d]   the JSON text of an object
     [kind |-> "scalar", value |-> v]   the JSON text of a string, a number, a list
     [kind |-> "text",   value |-> t]   UTF-8 text that is no JSON
     [kind |-> "bytes",  value |-> b]   bytes that are no UTF-8 text *)

MaxRecordedEvents == 250   \* settings.max_recorded_events

\* message.payload.decode("utf-8") raises UnicodeDecodeError, which the
\* `except json.JSONDecodeError` around it does not catch
DecodeRaises(raw) == raw.kind = "bytes"

\* json.loads(message.payload.decode("utf-8")) and, on JSONDecodeError, the text
Decoded(raw) == IF raw.kind = "object" THEN raw.value ELSE [nondict |-> raw.value]

\* self._events.append(event) on a deque(maxlen=max_recorded_events)
RecordEvent(evs, topic, payload, now) ==
    LastN(Append(evs, [topic |-> topic, payload |-> payload, timestamp |-> IsoFormat(now)]),
          MaxRecordedEvents)

\* get_recent_events(limit): limit = max(1, min(limit, max_recorded_events)),
\* then list(self._events)[-limit:]
get_recent_events(evs, limit) ==
    LET capped  == IF limit < MaxRecordedEvents THEN limit ELSE MaxRecordedEvents
        clamped == IF capped > 1 THEN capped ELSE 1
    IN LastN(evs, clamped)

\* GET /mqtt/events?limit=...
GetRecentEvents(limit) ==
    /\ reply' = [call |-> "get_recent_events", limit |-> limit,
                 body |-> get_recent_events(events, limit)]
    /\ UNCHANGED <<unlocked, running, extVars, mqttVars, clock, cacheVars, storeVars, hubVars, tasks>>

\* the categories whose handler's pattern matches the topic
HandlersFor(topic) == {cat \in {"status", "pose", "errors", "joints", "gps", "battery", "health"} :
                          Matches(topic, cat)}

\* The number of malformed messages the program has counted.  A handler returns on
\* a payload that is no dict, and _dispatch_to_handlers logs at debug level when no
\* pattern matches; neither counts anything, and no other code does.
malformed_count == 0

\* An MQTT message arrives: _handle_message decodes it, records it, and
\* _dispatch_to_handlers schedules the handler of every matching pattern, which
\* runs to its first suspension.
OnMessage(topic, raw) ==
    IF DecodeRaises(raw)
    THEN /\ unhandled' = unhandled + 1
         /\ UNCHANGED <<apiVars, events, clock, cacheVars, storeVars, hubVars, tasks>>
    ELSE /\ events' = RecordEvent(events, topic, Decoded(raw), clock)
         /\ unhandled' = unhandled
         /\ IF HandlersFor(topic) = {}
            THEN UNCHANGED <<apiVars, clock, cacheVars, storeVars, hubVars, tasks>>
            ELSE \E cat \in HandlersFor(topic) :
                    Begin(Len(tasks) + 1, cat, topic, Decoded(raw))

\* settings.mqtt_default_subscriptions, each filter given as its levels
DefaultSubscriptions ==
    { <<"frontend", "events", "#">>, <<"simulator", "#">>,
      <<"robot", "status", "#">>, <<"robot", "pose", "#">>, <<"robot", "errors", "#">> }

\* Does the broker deliver a message on `topic` to a client subscribed with
\* `filter` (client.subscribe(topic) in _handle_connect)?  "#" covers the rest
\* of the topic, "+" one level.
RECURSIVE FilterCovers(_, _)
FilterCovers(filter, topic) ==
    IF filter = <<>> THEN topic = <<>>
    ELSE IF Head(filter) = "#" THEN TRUE
    ELSE IF topic = <<>> THEN FALSE
    ELSE /\ Head(filter) = "+" \/ Head(filter) = Head(topic)
         /\ FilterCovers(Tail(filter), Tail(topic))

\* _handle_connect subscribes to every member of self._subscriptions, which is
\* the default list unless POST /mqtt/subscribe added to it
Subscribed(subs, topic) == \E filter \in subs : FilterCovers(filter, topic)

\* A client publishes on `topic` at the broker.  The broker hands the message to
\* the backend's client, whose on_message callback then runs, only when one of
\* its subscriptions covers the topic; otherwise the backend never sees it.
\* The reply records the message the broker did not deliver.
Publish(topic, raw) ==
    IF Subscribed(DefaultSubscriptions, topic)
    THEN OnMessage(topic, raw)
    ELSE /\ reply' = [call |-> "publish", topic |-> topic, delivered |-> FALSE]
         /\ UNCHANGED <<unlocked, running, extVars, mqttVars, clock, cacheVars, storeVars, hubVars, tasks>>

\* db_session.commit() of task i ends: the rows are written, or the commit raises
\* and the session is rolled back.  The coroutine runs on to its next suspension.
ResumeCommit(i, ok) ==
    /\ tasks[i].pc = "commit"
    /\ LET tk  == tasks[i]
           evq == IF ok THEN tk.evq ELSE AfterFailedCommit(tk.cat, tk.evq)
           tk1 == [tk EXCEPT !.commit = IF ok THEN "ok" ELSE "failed", !.session = <<>>,
                             !.error = IF ok THEN "none" ELSE "commit"]
           written == IF ok THEN tk.session ELSE <<>>
       IN /\ telemetry_logs' = telemetry_logs \o RowsOf(written, "telemetry_logs")
          /\ path_logs' = path_logs \o RowsOf(written, "robot_path_logs")
          /\ battery_history' = battery_history \o RowsOf(written, "battery_history")
          /\ error_logs' = error_logs \o RowsOf(written, "error_logs")
          /\ tasks' = [tasks EXCEPT ![i] = EnterBroadcast(tk1, evq, active_connections)]
          /\ inbox' = EnterInbox(inbox, evq, active_connections)
    /\ UNCHANGED <<apiVars, mqttVars, clock, cacheVars, last_db_write, active_connections, broken, slow>>

-----------------------------------------------------------------------------
(* RobotSimulator (src/backend/app/robot_simulator.py) *)

SPEED_WALK == 12    \* 1.2 m/s, in tenths
SPEED_RUN  == 45    \* 4.5 m/s
SPEED_TURN == 8     \* 0.8 rad/s

\* The threads that run simulator code: paho's network thread, which calls the
\* synchronous command handlers, and the simulation loop thread.
SimThreads == {"mqtt", "loop"}

\* RobotSimulator.__init__.  Position, heading, GPS and battery, which no command
\* reads, are left out.  lock is the thread holding self._lock ("" when free),
\* pc the place of each thread, published the telemetry snapshots taken.
NewSimulator ==
    [mode             |-> "standing",
     status           |-> "idle",
     linear_velocity  |-> 0,
     angular_velocity |-> 0,
     lock             |-> "",
     pc               |-> [t \in SimThreads |-> IF t = "loop" THEN "update" ELSE "idle"],
     published        |-> 0]

Commands == {"sit", "stand", "walk", "run", "stop", "move_forward", "move_backward",
             "turn_left", "turn_right", "dance"}

\* threading.Lock.acquire by `thread` returns only when no thread holds the
\* lock: the lock is not reentrant
CanAcquire(lock, thread) == lock = ""

\* the commands whose _execute_* ends with self._publish_telemetry()
Publishes(cmd) == cmd \in {"sit", "stand", "walk", "run"}

\* the assignments of _execute_<cmd>, up to the call of _publish_telemetry
Execute(s, cmd) ==
    LET speed == IF s.mode = "walking" THEN SPEED_WALK ELSE SPEED_RUN IN
    CASE cmd = "sit"   -> [s EXCEPT !.mode = "sitting", !.linear_velocity = 0,
                                    !.angular_velocity = 0, !.status = "idle"]
      [] cmd = "stand" -> [s EXCEPT !.mode = "standing", !.linear_velocity = 0,
                                    !.angular_velocity = 0, !.status = "idle"]
      [] cmd = "walk"  -> [s EXCEPT !.mode = "walking", !.linear_velocity = SPEED_WALK,
                                    !.angular_velocity = 0, !.status = "moving"]
      [] cmd = "run"   -> [s EXCEPT !.mode = "running", !.linear_velocity = SPEED_RUN,
                                    !.angular_velocity = 0, !.status = "moving"]
      [] cmd = "stop"  -> [s EXCEPT !.linear_velocity = 0, !.angular_velocity = 0,
                                    !.status = "idle"]
      [] cmd \in {"move_forward", "move_backward", "turn_left", "turn_right"}
                /\ s.mode = "sitting" -> s
      [] cmd = "move_forward"  -> [s EXCEPT !.linear_velocity = speed, !.angular_velocity = 0]
      [] cmd = "move_backward" -> [s EXCEPT !.linear_velocity = -speed, !.angular_velocity = 0]
      [] cmd = "turn_left"     -> [s EXCEPT !.linear_velocity = 0, !.angular_velocity = SPEED_TURN]
      [] cmd = "turn_right"    -> [s EXCEPT !.linear_velocity = 0, !.angular_velocity = -SPEED_TURN]
      [] OTHER -> s

\* _update_state, without position and battery
Updated(s) ==
    IF (s.linear_velocity # 0 \/ s.angular_velocity # 0) /\ s.mode \in {"walking", "running"}
    THEN [s EXCEPT !.status = "moving"]
    ELSE LET s1 == IF s.mode \in {"standing", "sitting"}
                   THEN [s EXCEPT !.linear_velocity = 0, !.angular_velocity = 0] ELSE s
         IN [s1 EXCEPT !.status = IF @ = "moving" THEN "idle" ELSE @]

simFrame ==
    UNCHANGED <<reply, unlocked, running, mqtt, message_handlers, server, mqttVars, clock,
                cacheVars, storeVars, hubVars, tasks>>

\* _handle_command on the MQTT thread: `with self._lock`, then _execute_<cmd>.
\* A command that does not publish leaves the with block, which releases the
\* lock; one that does is at the call of _publish_telemetry with the lock held.
handle_command(cmd) ==
    /\ sim.pc["mqtt"] = "idle"
    /\ CanAcquire(sim.lock, "mqtt")
    /\ sim' = IF Publishes(cmd)
              THEN [Execute(sim, cmd) EXCEPT !.lock = "mqtt", !.pc["mqtt"] = "publish"]
              ELSE Execute(sim, cmd)
    /\ simFrame

\* _handle_cmd_vel on the MQTT thread: the velocities are assigned under the
\* lock, and _publish_telemetry is called after the with block
handle_cmd_vel(linear, angular) ==
    /\ sim.pc["mqtt"] = "idle"
    /\ CanAcquire(sim.lock, "mqtt")
    /\ sim' = [sim EXCEPT !.linear_velocity = Float(linear), !.angular_velocity = Float(angular),
                          !.pc["mqtt"] = "publish"]
    /\ simFrame

\* mode_map.get(mode, mode) of _handle_mode_change, as the command executed
ModeCommand(mode) ==
    CASE mode \in {"run", "running"}   -> "run"
      [] mode \in {"walk", "walking"}  -> "walk"
      [] mode \in {"sit", "sitting"}   -> "sit"
      [] mode \in {"stand", "standing"} -> "stand"
      [] mode = "stop"                  -> "stop"
      [] OTHER                          -> "invalid"

\* _handle_mode_change on the MQTT thread: it calls _execute_<cmd> without
\* taking the lock
handle_mode_change(mode) ==
    /\ sim.pc["mqtt"] = "idle"
    /\ sim' = IF Publishes(ModeCommand(mode))
              THEN [Execute(sim, ModeCommand(mode)) EXCEPT !.pc["mqtt"] = "publish"]
              ELSE Execute(sim, ModeCommand(mode))
    /\ simFrame

\* _publish_telemetry on `thread`: `with self._lock` takes the snapshot, then
\* the messages are published.  On the MQTT thread the call returns into
\* _execute_<cmd> and _handle_command, whose with block then releases the lock.
publish_telemetry(thread) ==
    /\ sim.pc[thread] = "publish"
    /\ CanAcquire(sim.lock, thread)
    /\ sim' = [sim EXCEPT !.published = @ + 1, !.lock = "",
                          !.pc[thread] = IF thread = "loop" THEN "update" ELSE "idle"]
    /\ simFrame

\* _simulation_loop: self._update_state(dt), under the lock
update_state_step ==
    /\ sim.pc["loop"] = "update"
    /\ CanAcquire(sim.lock, "loop")
    /\ sim' = [Updated(sim) EXCEPT !.pc["loop"] = "publish"]
    /\ simFrame

-----------------------------------------------------------------------------
(* MQTTManager: connection and handlers (src/backend/app/mqtt_manager.py) *)

MaxRetries == 5     \* max_retries of start()

\* The locals of a start() call: the place it is at (idle: never called; try:
\* at the top of an attempt; wait: in self._connected.wait(timeout=30);
\* returned; raised), attempt and retry_delay, and, not in the code, the
\* time.sleep(retry_delay) calls made, whether the call returned at its first
\* line, and what wait() returned.
NoStart ==
    [pc |-> "idle", attempt |-> 0, retry_delay |-> 1, slept |-> <<>>,
     noop |-> FALSE, waited |-> FALSE]

\* MQTTManager.__init__.  `last` is not a field of the code: it is the most
\* recent connection event.
NewManager ==
    [connected          |-> FALSE,     \* self._connected (threading.Event)
     reconnection_count |-> 0,
     connection_error   |-> "",        \* "" stands for None
     loop_thread        |-> "none",    \* self._loop_thread: none, or alive
     last               |-> "none",
     start              |-> NoStart]   \* the start() call in progress, or the last one

\* MQTT_ERROR_CODES.get(rc, f"Unknown error code: {rc}")
ErrorText(rc) == <<"MQTT error", rc>>

\* _handle_connect(rc): the fields it assigns
AfterConnect(m, rc) ==
    IF rc = 0
    THEN [m EXCEPT !.reconnection_count = 0, !.connection_error = "", !.connected = TRUE]
    ELSE [m EXCEPT !.connection_error = ErrorText(rc), !.connected = FALSE]

\* _handle_disconnect(rc): the fields it assigns
AfterDisconnectMutant(m, rc) ==
    [m EXCEPT !.connected = FALSE, !.reconnection_count = @ + 1]

AfterDisconnect(m, rc) ==
    [m EXCEPT !.connected = FALSE,
              !.reconnection_count = IF rc = 0 THEN @ ELSE @ + 1]

mqttFrame ==
    UNCHANGED <<reply, unlocked, running, sim, message_handlers, server, mqttVars, clock,
                cacheVars, storeVars, hubVars, tasks>>

\* paho calls on_connect with the broker's answer
on_connect(rc) ==
    /\ mqtt' = [AfterConnect(mqtt, rc) EXCEPT
                   !.last = IF rc = 0 THEN "connect_ok" ELSE "connect_failed"]
    /\ mqttFrame

\* paho calls on_disconnect: rc = 0 after client.disconnect(), another rc when
\* the connection was lost
on_disconnect(rc) ==
    /\ mqtt' = [AfterDisconnect(mqtt, rc) EXCEPT !.last = "disconnect"]
    /\ mqttFrame

\* The end of an attempt of start() that did not connect: sleep and double the
\* delay when attempts are left, raise after the last one.
AfterFailedAttemptMutant(st) ==
    IF st.attempt < MaxRetries - 1
    THEN [st EXCEPT !.pc = "try", !.attempt = @ + 1, !.slept = Append(@, st.retry_delay)]
    ELSE [st EXCEPT !.pc = "raised"]

AfterFailedAttempt(st) ==
    IF st.attempt < MaxRetries - 1
    THEN [st EXCEPT !.pc = "try", !.attempt = @ + 1, !.slept = Append(@, st.retry_delay),
                    !.retry_delay = @ * 2]
    ELSE [st EXCEPT !.pc = "raised"]

\* start() is called: it returns at once when the loop thread is alive
start_call ==
    /\ mqtt.start.pc \in {"idle", "returned", "raised"}
    /\ mqtt' = [mqtt EXCEPT !.start =
                   IF mqtt.loop_thread = "alive"
                   THEN [NoStart EXCEPT !.pc = "returned", !.noop = TRUE]
                   ELSE [NoStart EXCEPT !.pc = "try"]]
    /\ mqttFrame

\* The try block of one attempt up to the wait: connect_async raises (the
\* except branch finds no loop thread), or the loop thread is created and started
start_try(raises) ==
    /\ mqtt.start.pc = "try"
    /\ mqtt' = IF raises
               THEN [mqtt EXCEPT !.start = AfterFailedAttempt(@)]
               ELSE [mqtt EXCEPT !.loop_thread = "alive", !.start.pc = "wait"]
    /\ mqttFrame

\* self._connected.wait(timeout=30) returns: true when the flag is set, false
\* after 30 s; then the client is disconnected, the thread joined and forgotten
\* and the flag cleared
start_wait ==
    /\ mqtt.start.pc = "wait"
    /\ mqtt' = IF mqtt.connected
               THEN [mqtt EXCEPT !.start.pc = "returned", !.start.waited = TRUE]
               ELSE [mqtt EXCEPT !.loop_thread = "none", !.connected = FALSE,
                                 !.start = AfterFailedAttempt(@)]
    /\ mqttFrame

\* MQTTManager.stop
stop ==
    /\ mqtt' = [mqtt EXCEPT !.loop_thread = "none", !.connected = FALSE, !.last = "stop"]
    /\ mqttFrame

\* MQTTManager.__init__: no handler is registered and no message is being
\* dispatched.  handlers is the dict in insertion order, one [pattern, kind]
\* per key; the other fields are the locals of the _dispatch_to_handlers call in
\* progress: the dict iterator (pos, and size, the number of keys when the
\* iteration began), the handlers called so far, and how the call ended.
NoHandlers ==
    [handlers |-> <<>>,
     active   |-> FALSE,    \* a dispatch is in progress
     topic    |-> <<>>,
     pos      |-> 0,
     size     |-> 0,
     known    |-> <<>>,     \* the dict when the message arrived
     invoked  |-> <<>>,     \* the patterns whose handler was called, in order
     caught   |-> 0,        \* exceptions of synchronous handlers caught and logged
     failed   |-> FALSE]    \* an exception left _dispatch_to_handlers

\* fnmatch.fnmatch(topic, pattern) for the patterns the program registers:
\* "robot/<cat>/*" (the * also matches text with slashes) and whole topics
FnMatch(topic, pattern) ==
    IF pattern[Len(pattern)] = "*"
    THEN /\ Len(topic) >= Len(pattern)
         /\ \A k \in 1..(Len(pattern) - 1) : topic[k] = pattern[k]
    ELSE topic = pattern

\* self._message_handlers[topic_pattern] = handler: a new key goes to the end
\* of the dict, a key that is there keeps its place
SetHandler(handlers, pattern, kind) ==
    IF \E k \in 1..Len(handlers) : handlers[k].pattern = pattern
    THEN [k \in 1..Len(handlers) |->
            IF handlers[k].pattern = pattern THEN [pattern |-> pattern, kind |-> kind]
            ELSE handlers[k]]
    ELSE Append(handlers, [pattern |-> pattern, kind |-> kind])

\* next() of the iterator of self._message_handlers.items() raises RuntimeError
\* (dictionary changed size during iteration) when the dict has another number
\* of keys than when the iteration began; nothing in register_handler or
\* _dispatch_to_handlers prevents that
IterationRaises(mh) == Len(mh.handlers) # mh.size

handlersFrame ==
    UNCHANGED <<reply, unlocked, running, sim, mqtt, server, mqttVars, clock,
                cacheVars, storeVars, hubVars, tasks>>

\* register_handler, called by on_startup and by every RobotSimulator.__init__
\* on the event loop's thread
register_handler(pattern, kind) ==
    /\ message_handlers' = [message_handlers EXCEPT
                               !.handlers = SetHandler(@, pattern, kind)]
    /\ handlersFrame

\* _dispatch_to_handlers(topic, payload) begins on the MQTT network thread
dispatch_begin(topic) ==
    /\ ~message_handlers.active
    /\ message_handlers' = [message_handlers EXCEPT
                               !.active = TRUE, !.topic = topic, !.pos = 0,
                               !.size = Len(message_handlers.handlers),
                               !.known = message_handlers.handlers,
                               !.invoked = <<>>, !.caught = 0, !.failed = FALSE]
    /\ handlersFrame

\* One turn of its for loop: the iterator yields the next item, or ends the
\* loop, or raises; a matching handler is called (a coroutine function is
\* scheduled on the event loop, a synchronous handler is called in a try block
\* that catches and logs what it raises).
dispatch_step(raises) ==
    /\ message_handlers.active
    /\ LET mh == message_handlers IN
       message_handlers' =
           IF IterationRaises(mh) THEN [mh EXCEPT !.active = FALSE, !.failed = TRUE]
           ELSE IF mh.pos = mh.size THEN [mh EXCEPT !.active = FALSE]
           ELSE LET h == mh.handlers[mh.pos + 1] IN
                IF FnMatch(mh.topic, h.pattern)
                THEN [mh EXCEPT !.pos = @ + 1,
                                !.invoked = Append(@, h.pattern),
                                !.caught = IF h.kind = "sync" /\ raises THEN @ + 1 ELSE @]
                ELSE [mh EXCEPT !.pos = @ + 1]
    /\ handlersFrame

-----------------------------------------------------------------------------
(* The polling server (src/src/mqtt_server.py) *)

\* MQTTRobotServer.__init__.  batch is the local commands_to_process of
\* _command_loop, commands the history mqtt_data['commands'], one entry per
\* processed command; accepted, not in the code, counts the commands queued.
NewServer ==
    [running       |-> FALSE,
     command_queue |-> <<>>,
     batch         |-> <<>>,
     commands      |-> <<>>,
     accepted      |-> 0]

\* with self.command_lock: commands_to_process = self.command_queue.copy();
\* self.command_queue.clear()
TakeAllMutant(queue) == [taken |-> queue, left |-> queue]

TakeAll(queue) == [taken |-> queue, left |-> <<>>]

\* _process_command: process_drive_command's status, or ERROR when it raised
\* (a speed that is no number)
ProcessResult(command) ==
    IF command.speed = BadNumber THEN [status |-> "ERROR"] ELSE [status |-> "SUCCESS"]

\* add_command's log line, after the append: '{speed*100:.0f}' raises ValueError
\* for a speed that is no number; do_POST then answers 500
AddRaises(command) == command.speed = BadNumber

serverFrame ==
    UNCHANGED <<unlocked, running, sim, mqtt, message_handlers, mqttVars, clock,
                cacheVars, storeVars, hubVars, tasks>>

\* MQTTRobotServer.start
server_start ==
    /\ ~server.running
    /\ server' = [server EXCEPT !.running = TRUE]
    /\ UNCHANGED reply
    /\ serverFrame

\* add_command, called by WebHandler.do_POST on an HTTP thread: the command is
\* stamped and appended under the lock, also when the log line that follows
\* raises.  seq, not in the code, tells the
\* commands apart.
add_command(command) ==
    /\ server' = [server EXCEPT
                     !.accepted = @ + 1,
                     !.command_queue = Append(@, [direction |-> command.direction,
                                                  speed     |-> command.speed,
                                                  timestamp |-> IsoFormat(clock),
                                                  seq       |-> server.accepted + 1])]
    /\ reply' = [call |-> "add_command", raised |-> AddRaises(command)]
    /\ serverFrame

\* _command_loop at the top of its while loop: the queue is copied and cleared
\* under the lock
command_loop_take ==
    /\ server.running
    /\ server.batch = <<>>
    /\ server' = [server EXCEPT !.batch = TakeAll(server.command_queue).taken,
                                !.command_queue = TakeAll(server.command_queue).left]
    /\ UNCHANGED reply
    /\ serverFrame

\* one turn of `for command in commands_to_process`
command_loop_process ==
    /\ server.batch # <<>>
    /\ LET command == Head(server.batch) IN
       server' = [server EXCEPT
                     !.batch = Tail(@),
                     !.commands = Append(@, [command |-> command,
                                             result  |-> ProcessResult(command)])]
    /\ UNCHANGED reply
    /\ serverFrame

-----------------------------------------------------------------------------
InitCommon ==
    /\ clock = StartTime
    /\ states = EmptyDict
    /\ last_db_write = EmptyDict
    /\ telemetry_logs = <<>>
    /\ path_logs = <<>>
    /\ battery_history = <<>>
    /\ error_logs = <<>>
    /\ inbox = [ws \in Conns |-> <<>>]
    /\ tasks = <<>>
    /\ held = <<>>
    /\ appended = [id \in RobotIds |-> <<>>]
    /\ events = <<>>
    /\ unhandled = 0
    /\ reply = NoReply
    /\ sim = NewSimulator
    /\ mqtt = NewManager
    /\ message_handlers = NoHandlers
    /\ server = NewServer
    /\ unlocked = {}

(* The hub alone: concurrent broadcast calls over a changing registry. *)
InitHub ==
    /\ InitCommon
    /\ active_connections \in SUBSET Conns
    /\ broken \in SUBSET active_connections
    /\ slow = {}
    /\ running = active_connections

NextHub ==
    \/ broadcast
    \/ \E i \in 1..Len(tasks) : ResumeSend(i)
    \/ \E ws \in Conns : Break(ws)

SpecHub == InitHub /\ [][NextHub]_vars

(* The hub with a subscriber that stopped reading: its send_text stays suspended.
   Every send that completes lets its coroutine run on (the event loop is fair). *)
InitSlow ==
    /\ InitCommon
    /\ active_connections \in SUBSET Conns
    /\ broken = {}
    /\ slow \in {c \in SUBSET active_connections : Cardinality(c) <= 1}
    /\ running = active_connections

NextSlow ==
    \/ broadcast
    \/ \E i \in 1..Len(tasks) : ResumeSend(i)

SpecSlow ==
    InitSlow /\ [][NextSlow]_vars /\ \A i \in 1..MaxBroadcasts : WF_vars(i <= Len(tasks) /\ ResumeSend(i))

(* The cache alone: calls on RobotStateCache, one at a time. *)
Telemetry ==
    { [battery |-> 42, mode |-> "walking"],
      [battery |-> 40],
      [battery |-> 150],
      [battery |-> -20],
      [status |-> "OK"],
      [pose |-> [x |-> 1, y |-> 2, theta |-> 3]] }

Poses == { [x |-> 4, y |-> 5, theta |-> 6] }

Errors == { <<"[", "NAVIGATION", "] ", "Path planning failed">>,
            <<"[", "UNKNOWN", "] ", "No message provided">> }

InitCache ==
    /\ InitCommon
    /\ active_connections = {}
    /\ broken = {}
    /\ slow = {}
    /\ running = active_connections

NextCache ==
    \/ \E id \in RobotIds, t \in Telemetry : UpdateStateCall(id, t)
    \/ \E id \in RobotIds, p \in Poses : PoseUpdateCall(id, p)
    \/ \E id \in RobotIds :
          /\ Len(appended[id]) < MaxFewAppends
          /\ AddErrorCall(id, <<"[", "UNKNOWN", "] ", "No message provided">>)
    \/ \E id \in RobotIds : ClearErrorsCall(id)
    \/ clock < StartTime + MaxTicks /\ Tick

SpecCache == InitCache /\ [][NextCache]_vars

(* The errors list of one robot. *)
NextErrors ==
    \/ \E e \in Errors :
          /\ Len(appended["r1"]) < MaxAppends
          /\ AddErrorCall("r1", e)
    \/ ClearErrorsCall("r1")
    \/ \E t \in {[battery |-> 40], [battery |-> 42, mode |-> "walking"]} :
          UpdateStateCall("r1", t)

SpecErrors == InitCache /\ [][NextErrors]_vars

(* Readers of the cache keeping what they were given. *)
NextSnapshot ==
    \/ \E id \in RobotIds, t \in {[battery |-> 40], [battery |-> 42, mode |-> "walking"]} :
          UpdateStateCall(id, t)
    \/ \E id \in RobotIds, p \in Poses : PoseUpdateCall(id, p)
    \/ \E id \in RobotIds :
          /\ Len(appended[id]) < MaxFewAppends
          /\ AddErrorCall(id, <<"[", "UNKNOWN", "] ", "No message provided">>)
    \/ \E id \in RobotIds : ClearErrorsCall(id)
    \/ \E id \in RobotIds : Len(held) < MaxHeld /\ GetStateCall(id)
    \/ \E id \in RobotIds : Len(held) < MaxHeld /\ GetAllStatesCall(id)
    \/ clock < StartTime + MaxTicks /\ Tick

SpecSnapshot == InitCache /\ [][NextSnapshot]_vars

(* The router: MQTT messages of every category about one robot, handled
   concurrently, with two healthy subscribers. *)
Categories == {"status", "pose", "errors", "joints", "gps", "battery", "health"}

Topic(cat, robot_id) == <<"robot", cat, robot_id>>

Payloads(cat) ==
    CASE cat = "status"  -> { [battery |-> 42, mode |-> "walking"] }
      [] cat = "pose"    -> { [pose |-> [x |-> 1, y |-> 2, theta |-> 3]] }
      [] cat = "errors"  -> { [error_type |-> "NAVIGATION", message |-> "Path planning failed"] }
      [] cat = "joints"  -> { [joints |-> 12] }
      [] cat = "gps"     -> { [latitude |-> 37, longitude |-> -122] }
      [] cat = "battery" -> { [level |-> 76] }
      [] cat = "health"  -> { [health |-> 95] }

InitRouter ==
    /\ InitCommon
    /\ active_connections = {"w1"}
    /\ broken = {}
    /\ slow = {}
    /\ running = active_connections

NextRouter ==
    \/ \E cat \in Categories :
          \E payload \in Payloads(cat) :
              Len(tasks) < MaxMessages /\ Handle(cat, Topic(cat, "r1"), payload)
    \/ \E i \in 1..Len(tasks), ok \in BOOLEAN : ResumeCommit(i, ok)
    \/ \E i \in 1..Len(tasks) : ResumeSend(i)

Spec == InitRouter /\ [][NextRouter]_vars

(* The throttle: status samples of two robots over a few seconds.  Nobody is
   subscribed, so every broadcast returns at once and a handler suspends only in
   its commit. *)
InitThrottle ==
    /\ InitCommon
    /\ active_connections = {}
    /\ broken = {}
    /\ slow = {}
    /\ running = active_connections

NextThrottle ==
    \/ \E id \in RobotIds :
          Len(tasks) < MaxSamples /\ Handle("status", Topic("status", id), [battery |-> 40])
    \/ \E i \in 1..Len(tasks), ok \in BOOLEAN : ResumeCommit(i, ok)
    \/ clock < StartTime + MaxElapsed /\ Tick

SpecThrottle == InitThrottle /\ [][NextThrottle]_vars

(* Faults: messages about one robot whose handling raises somewhere (a battery or
   a pose component that is no number, a health that is no number, a commit that
   fails, a payload that is no object), among messages that are in order.  Of two
   subscribers the second one's send raises. *)
FaultPayloads(cat) ==
    CASE cat = "status" -> { [battery |-> 42, mode |-> "walking"],
                             [battery |-> BadNumber, mode |-> "walking"],
                             [health |-> BadNumber],
                             [nondict |-> "text"] }
      [] cat = "pose"   -> { [pose |-> [x |-> 1, y |-> 2, theta |-> 3]],
                             [pose |-> [x |-> 1, y |-> BadNumber, theta |-> 3]] }
      [] cat = "errors" -> { [error_type |-> "NAVIGATION", message |-> "Path planning failed"] }

InitFaults ==
    /\ InitCommon
    /\ active_connections = {"w1", "w2"}
    /\ broken = {"w2"}
    /\ slow = {}
    /\ running = active_connections

NextFaults ==
    \/ \E cat \in {"status", "pose", "errors"} :
          \E payload \in FaultPayloads(cat) :
              Len(tasks) < MaxMessages /\ Handle(cat, Topic(cat, "r1"), payload)
    \/ \E i \in 1..Len(tasks), ok \in BOOLEAN : ResumeCommit(i, ok)
    \/ \E i \in 1..Len(tasks) : ResumeSend(i)

SpecFaults == InitFaults /\ [][NextFaults]_vars

(* Ingest: MQTT messages as they come off the wire, well-formed or not, on
   topics that a handler matches or not. *)
IngestTopics == { Topic("status", "r1"), Topic("pose", "r1"),
                  <<"robot", "status">>, <<"garbage_topic_no_slash">> }

IngestRaws ==
    { [kind |-> "object", value |-> [battery |-> 42, mode |-> "walking"]],
      [kind |-> "object", value |-> [pose |-> [x |-> 1, y |-> 2, theta |-> 3]]],
      [kind |-> "scalar", value |-> "7"],
      [kind |-> "text",   value |-> "not json"],
      [kind |-> "bytes",  value |-> "ff"] }

NextIngest ==
    \/ \E topic \in IngestTopics, raw \in IngestRaws :
          Len(events) + unhandled < MaxMessages /\ OnMessage(topic, raw)
    \/ \E i \in 1..Len(tasks), ok \in BOOLEAN : ResumeCommit(i, ok)
    \/ \E i \in 1..Len(tasks) : ResumeSend(i)

SpecIngest == InitRouter /\ [][NextIngest]_vars

(* Arrival and handling apart: messages of the cache-changing categories about
   one robot arrive while the handlers of earlier ones are suspended in their
   commit.  Nobody is subscribed. *)
ArrivalPayloads(cat) ==
    CASE cat = "status" -> { [battery |-> 42, mode |-> "walking"], [battery |-> 40] }
      [] cat = "pose"   -> { [pose |-> [x |-> 1, y |-> 2, theta |-> 3]] }
      [] cat = "errors" -> { [error_type |-> "NAVIGATION", message |-> "Path planning failed"] }

NextArrival ==
    \/ \E cat \in {"status", "pose", "errors"} :
          \E payload \in ArrivalPayloads(cat) :
              Len(tasks) < MaxArrivals /\ Dispatch(cat, Topic(cat, "r1"), payload)
    \/ \E i \in 1..Len(tasks) : Start(i)
    \/ \E i \in 1..Len(tasks), ok \in BOOLEAN : ResumeCommit(i, ok)
    \/ clock < StartTime + MaxTicks /\ Tick

SpecArrival == InitThrottle /\ [][NextArrival]_vars

-----------------------------------------------------------------------------
(* Pose messages of robot r2 with different x, among error messages of the same
   robot, to N = 0, 1 or 2 subscribers whose sends succeed. *)
PosePayloads == { [pose |-> [x |-> 1, y |-> 2, theta |-> 3]],
                  [pose |-> [x |-> 7, y |-> 2, theta |-> 3]] }

InitPose ==
    /\ InitCommon
    /\ active_connections \in SUBSET {"w1", "w2"}
    /\ broken = {}
    /\ slow = {}
    /\ running = active_connections

NextPose ==
    \/ \E payload \in PosePayloads :
          Len(tasks) < MaxPoses /\ Handle("pose", Topic("pose", "r2"), payload)
    \/ Len(tasks) < MaxPoses
          /\ Handle("errors", Topic("errors", "r2"),
                    [error_type |-> "NAVIGATION", message |-> "Path planning failed"])
    \/ \E i \in 1..Len(tasks), ok \in BOOLEAN : ResumeCommit(i, ok)
    \/ \E i \in 1..Len(tasks) : ResumeSend(i)

SpecPose == InitPose /\ [][NextPose]_vars

(* The error log: more error messages of one robot than the cached list keeps,
   all in the same second, to one subscriber; each arrives when the handler of
   the one before has ended. *)
ErrorPayload == [error_type |-> "NAVIGATION", message |-> "Path planning failed"]

\* no handler is suspended
Idle(ts) == \A i \in 1..Len(ts) : ts[i].pc = "done"

InitErrorLog ==
    /\ InitCommon
    /\ active_connections = {"w1"}
    /\ broken = {}
    /\ slow = {}
    /\ running = active_connections

NextErrorLog ==
    \/ /\ Len(tasks) < MaxErrorMessages
       /\ Idle(tasks)
       /\ Handle("errors", Topic("errors", "r1"), ErrorPayload)
    \/ \E i \in 1..Len(tasks), ok \in BOOLEAN : ResumeCommit(i, ok)
    \/ \E i \in 1..Len(tasks) : ResumeSend(i)

SpecErrorLog == InitErrorLog /\ [][NextErrorLog]_vars

(* Pose messages of two robots among status messages of the first, over a few
   seconds.  Nobody is subscribed; each message arrives when the handler of the
   one before has ended. *)
TrackPayloads(cat) ==
    CASE cat = "status" -> [battery |-> 40, mode |-> "walking", status |-> "OK"]
      [] cat = "pose"   -> [pose |-> [x |-> 4, y |-> 5, theta |-> 6]]

NextTrack ==
    \/ /\ Len(tasks) < MaxSamples /\ Idle(tasks)
       /\ Handle("status", Topic("status", "r1"), TrackPayloads("status"))
    \/ \E id \in RobotIds :
          /\ Len(tasks) < MaxSamples /\ Idle(tasks)
          /\ Handle("pose", Topic("pose", id), TrackPayloads("pose"))
    \/ \E i \in 1..Len(tasks), ok \in BOOLEAN : ResumeCommit(i, ok)
    \/ clock < StartTime + MaxElapsed /\ Tick

SpecTrack == InitThrottle /\ [][NextTrack]_vars

(* Telemetry whose pose carries all components or only some. *)
PartialTelemetry ==
    { [pose |-> [x |-> 1, y |-> 2, theta |-> 3]],
      [pose |-> [x |-> 9]],
      [pose |-> [y |-> 5, theta |-> 6]],
      [mode |-> "walking"] }

NextPartial ==
    \/ \E id \in RobotIds, t \in PartialTelemetry : UpdateStateCall(id, t)
    \/ clock < StartTime + MaxTicks /\ Tick

SpecPartial == InitCache /\ [][NextPartial]_vars

(* The history endpoints (main.py): SELECT ... WHERE robot_id = :id ORDER BY
   timestamp DESC LIMIT :limit.  Rows with equal timestamps come in an order the
   database chooses. *)
Selections(table, robot_id, limit) ==
    LET idx == RowsAbout(table, robot_id)
        n   == IF Cardinality(idx) < limit THEN Cardinality(idx) ELSE limit
    IN {q \in [1..n -> idx] :
          /\ \A a, b \in 1..n : a < b => /\ q[a] # q[b]
                                         /\ table[q[a]].timestamp >= table[q[b]].timestamp
          /\ \A k \in idx \ Range(q) :
                \A a \in 1..n : table[k].timestamp <= table[q[a]].timestamp}

\* reversed(rows)
Reversed(q) == [a \in 1..Len(q) |-> q[Len(q) + 1 - a]]

\* GET /robot/{robot_id}/path: the rows are returned reversed.  src, the index of
\* the row in its table, is not part of the item.
get_robot_path(robot_id, limit) ==
    /\ \E q \in Selections(path_logs, robot_id, limit) :
          reply' = [call |-> "get_robot_path", robot_id |-> robot_id, limit |-> limit,
                    count |-> Len(q),
                    items |-> [a \in 1..Len(q) |->
                                 LET p == path_logs[Reversed(q)[a]] IN
                                 [x |-> p.x, y |-> p.y, theta |-> p.theta,
                                  timestamp |-> IsoFormat(p.timestamp),
                                  src |-> Reversed(q)[a]]]]
    /\ UNCHANGED <<unlocked, running, extVars, mqttVars, clock, cacheVars, storeVars, hubVars, tasks>>

\* GET /robot/{robot_id}/battery: the rows are returned reversed
get_battery_history(robot_id, limit) ==
    /\ \E q \in Selections(battery_history, robot_id, limit) :
          reply' = [call |-> "get_battery_history", robot_id |-> robot_id, limit |-> limit,
                    count |-> Len(q),
                    items |-> [a \in 1..Len(q) |->
                                 LET b == battery_history[Reversed(q)[a]] IN
                                 [battery_level |-> b.battery_level,
                                  timestamp |-> IsoFormat(b.timestamp),
                                  src |-> Reversed(q)[a]]]]
    /\ UNCHANGED <<unlocked, running, extVars, mqttVars, clock, cacheVars, storeVars, hubVars, tasks>>

\* GET /robot/{robot_id}/errors: the rows are returned as selected
get_robot_errors(robot_id, limit) ==
    /\ \E q \in Selections(error_logs, robot_id, limit) :
          reply' = [call |-> "get_robot_errors", robot_id |-> robot_id, limit |-> limit,
                    count |-> Len(q),
                    items |-> [a \in 1..Len(q) |->
                                 LET e == error_logs[q[a]] IN
                                 [error_type |-> e.error_type, message |-> e.error_message,
                                  severity |-> e.severity,
                                  timestamp |-> IsoFormat(e.timestamp),
                                  src |-> q[a]]]]
    /\ UNCHANGED <<unlocked, running, extVars, mqttVars, clock, cacheVars, storeVars, hubVars, tasks>>

\* the table a history endpoint reads
TableOf(call) ==
    CASE call = "get_robot_path"      -> path_logs
      [] call = "get_battery_history" -> battery_history
      [] call = "get_robot_errors"    -> error_logs

(* History: status, pose and error messages of two robots, one after the other
   over a second or two, and history queries in between. *)
HistoryPayloads(cat) ==
    CASE cat = "status" -> [battery |-> 40, pose |-> [x |-> 1, y |-> 2, theta |-> 3]]
      [] cat = "pose"   -> [pose |-> [x |-> 4, y |-> 5, theta |-> 6]]
      [] cat = "errors" -> ErrorPayload

NextHistory ==
    \/ \E cat \in {"status", "pose", "errors"}, id \in RobotIds :
          /\ Len(tasks) < MaxHistory /\ Idle(tasks)
          /\ Handle(cat, Topic(cat, id), HistoryPayloads(cat))
    \/ \E i \in 1..Len(tasks) : ResumeCommit(i, TRUE)
    \/ clock < StartTime + MaxTicks /\ Tick
    \/ \E id \in RobotIds, limit \in 0..MaxLimit : get_robot_path(id, limit)
    \/ \E id \in RobotIds, limit \in 0..MaxLimit : get_battery_history(id, limit)
    \/ \E id \in RobotIds, limit \in 0..MaxLimit : get_robot_errors(id, limit)

SpecHistory == InitThrottle /\ [][NextHistory]_vars

(* Every way into the cache: the calls of the handlers and of the REST
   endpoints. *)
NextLock ==
    \/ \E id \in RobotIds : UpdateStateCall(id, [battery |-> 42, mode |-> "walking"])
    \/ \E id \in RobotIds, p \in Poses : PoseUpdateCall(id, p)
    \/ \E id \in RobotIds :
          /\ Len(appended[id]) < MaxFewAppends
          /\ AddErrorCall(id, <<"[", "UNKNOWN", "] ", "No message provided">>)
    \/ \E id \in RobotIds : ClearErrorsCall(id)
    \/ \E id \in RobotIds : get_robot_state(id)
    \/ get_all_robot_states

SpecLock == InitCache /\ [][NextLock]_vars

(* The throttle under concurrency: status and pose messages of one robot are
   scheduled and begun while the handlers of earlier ones are suspended in their
   commit, over a few seconds.  Nobody is subscribed. *)
NextWindow ==
    \/ \E cat \in {"status", "pose"} :
          Len(tasks) < MaxSamples /\ Dispatch(cat, Topic(cat, "r1"), TrackPayloads(cat))
    \/ \E i \in 1..Len(tasks) : Start(i)
    \/ \E i \in 1..Len(tasks), ok \in BOOLEAN : ResumeCommit(i, ok)
    \/ clock < StartTime + MaxElapsed /\ Tick

SpecWindow == InitThrottle /\ [][NextWindow]_vars

(* The registry: subscribers come and go while broadcasts are under way. *)
RegistryConns == {"w1", "w2"}

InitRegistry ==
    /\ InitCommon
    /\ active_connections = {"w1"}
    /\ broken = {}
    /\ slow = {}
    /\ running = active_connections

NextRegistry ==
    \/ Len(tasks) < MaxCasts /\ broadcast
    \/ \E i \in 1..Len(tasks) : ResumeSend(i)
    \/ \E ws \in RegistryConns : connect(ws)
    \/ \E ws \in RegistryConns : disconnect(ws)
    \/ \E ws \in RegistryConns : Break(ws)

SpecRegistry == InitRegistry /\ [][NextRegistry]_vars

(* The life of a subscriber: its endpoint registers it, broadcasts go out, the
   peer goes away, the endpoint loop is left one way or the other. *)
NextLifecycle ==
    \/ Len(tasks) < MaxCasts /\ broadcast
    \/ \E i \in 1..Len(tasks) : ResumeSend(i)
    \/ \E ws \in RegistryConns : connect(ws)
    \/ \E ws \in RegistryConns : Break(ws)
    \/ \E ws \in RegistryConns, exc \in {"WebSocketDisconnect", "AttributeError"} :
          websocket_endpoint_exit(ws, exc)

SpecLifecycle == InitRegistry /\ [][NextLifecycle]_vars

(* Errors of two robots recorded and cleared, among telemetry updates. *)
NextClear ==
    \/ \E id \in RobotIds, t \in {[battery |-> 40], [battery |-> 42, mode |-> "walking"]} :
          UpdateStateCall(id, t)
    \/ \E id \in RobotIds, e \in Errors :
          /\ Len(appended[id]) < MaxFewAppends
          /\ AddErrorCall(id, e)
    \/ \E id \in RobotIds : clear_robot_errors(id)
    \/ clock < StartTime + MaxTicks /\ Tick

SpecClear == InitCache /\ [][NextClear]_vars

(* The broker: messages published on the topics the handlers are registered
   for, one robot, one subscriber. *)
NextBroker ==
    \/ \E cat \in Categories :
          \E payload \in Payloads(cat) :
              /\ Len(events) < MaxMessages
              /\ Publish(Topic(cat, "r1"), [kind |-> "object", value |-> payload])
    \/ \E i \in 1..Len(tasks), ok \in BOOLEAN : ResumeCommit(i, ok)
    \/ \E i \in 1..Len(tasks) : ResumeSend(i)

SpecBroker == InitRouter /\ [][NextBroker]_vars

(* The simulator: teleop commands arrive while the simulation loop runs. *)
NextSimulator ==
    \/ \E cmd \in Commands : handle_command(cmd)
    \/ \E linear \in {0, SPEED_WALK}, angular \in {0, SPEED_TURN} : handle_cmd_vel(linear, angular)
    \/ \E mode \in {"run", "walking", "sit", "stand", "stop", "fly"} : handle_mode_change(mode)
    \/ \E thread \in SimThreads : sim.published < MaxPublished /\ publish_telemetry(thread)
    \/ update_state_step

SpecSimulator == InitThrottle /\ [][NextSimulator]_vars

(* Dispatch: handlers are registered by one thread while the MQTT thread
   dispatches the messages it receives. *)
DispatchPatterns ==
    { [pattern |-> <<"robot", "status", "*">>, kind |-> "async"],
      [pattern |-> <<"robot", "teleop", "robot_01">>, kind |-> "sync"],
      [pattern |-> <<"robot", "teleop", "*">>, kind |-> "sync"] }

DispatchTopics == { <<"robot", "status", "r1">>, <<"robot", "teleop", "robot_01">>,
                    <<"robot", "joints", "r1">> }

NextDispatch ==
    \/ \E h \in DispatchPatterns : register_handler(h.pattern, h.kind)
    \/ \E topic \in DispatchTopics : dispatch_begin(topic)
    \/ \E raises \in BOOLEAN : dispatch_step(raises)

SpecDispatch == InitThrottle /\ [][NextDispatch]_vars

(* The connection: the broker accepts, refuses and drops the connection, and
   the program stops the client. *)
NextConnection ==
    \/ \E rc \in {0, 1, 5} : on_connect(rc)
    \/ \E rc \in {0, 1, 7} :
          mqtt.reconnection_count < MaxReconnects /\ on_disconnect(rc)
    \/ stop

SpecConnection == InitThrottle /\ [][NextConnection]_vars

(* start(): the broker answers, or not, while start() waits; the connection
   is lost; the program stops the client and starts it again. *)
NextStart ==
    \/ start_call
    \/ \E raises \in BOOLEAN : start_try(raises)
    \/ start_wait
    \/ \E rc \in {0, 5} : mqtt.loop_thread = "alive" /\ on_connect(rc)
    \/ \E rc \in {0, 7} : mqtt.connected /\ on_disconnect(rc)
    \/ stop

SpecStart == InitThrottle /\ [][NextStart]_vars

(* The recorded events: messages as they come off the wire, and readers of the
   buffer. *)
NextEvents ==
    \/ \E topic \in IngestTopics, raw \in IngestRaws :
          Len(events) + unhandled < MaxMessages /\ OnMessage(topic, raw)
    \/ \E i \in 1..Len(tasks), ok \in BOOLEAN : ResumeCommit(i, ok)
    \/ \E i \in 1..Len(tasks) : ResumeSend(i)
    \/ \E limit \in 0..MaxLimit : GetRecentEvents(limit)

SpecEvents == InitRouter /\ [][NextEvents]_vars

(* The polling server: HTTP threads queue drive commands while the command
   loop takes and processes them. *)
DriveCommands == { [direction |-> "forward", speed |-> 1],
                   [direction |-> "rotate_left", speed |-> BadNumber] }

NextServer ==
    \/ server_start
    \/ \E command \in DriveCommands :
          server.accepted < MaxCommands /\ add_command(command)
    \/ command_loop_take
    \/ command_loop_process

SpecServer == InitThrottle /\ [][NextServer]_vars

(* Properties *)

\* how often e occurs in the sequence s
Count(s, e) == Cardinality({k \in 1..Len(s) : s[k] = e})

\* C1: when a broadcast call has returned, every connection of its copy whose
\* send did not raise has received the message once, every connection whose send
\* raised is out of the registry and has not received it, no exception left the
\* call, and get_connection_count() is the number of connections that did not
\* raise (when nothing else changed the registry during the call).
BroadcastIsolation ==
    \A i \in 1..Len(tasks) :
        (tasks[i].cat = "bcast" /\ tasks[i].pc = "done") =>
            LET tk == tasks[i]
                ev == [type |-> "msg", robot_id |-> "", src |-> i]
            IN /\ \A ws \in tk.snap \ tk.raised : Count(inbox[ws], ev) = 1
               /\ \A ws \in tk.raised :
                     ws \notin active_connections /\ Count(inbox[ws], ev) = 0
               /\ ~tk.exc
               /\ tk.alone => tk.count = Cardinality(tk.snap \ tk.raised)

\* three subscribers, one failing: two deliveries and a count of 2
BroadcastIsolationWitness ==
    \E i \in 1..Len(tasks) :
        /\ tasks[i].cat = "bcast" /\ tasks[i].pc = "done" /\ tasks[i].alone
        /\ tasks[i].snap = Conns
        /\ Cardinality(tasks[i].raised) = 1
        /\ tasks[i].count = 2
        /\ get_connection_count = 2

\* C3: a telemetry message holding only "battery", applied to an entity that is
\* cached, leaves mode, status, pose and errors as they were and sets battery
\* (and last_updated).
PartialUpdateFrame ==
    [][\A id \in RobotIds, t \in Telemetry :
          (DOMAIN t = {"battery"} /\ id \in DOMAIN states /\ UpdateStateCall(id, t)) =>
              /\ states'[id].mode = states[id].mode
              /\ states'[id].status = states[id].status
              /\ states'[id].pose = states[id].pose
              /\ states'[id].errors = states[id].errors
              /\ states'[id].robot_id = states[id].robot_id
              /\ (t.battery \in 0..100 => states'[id].battery = t.battery)
              /\ states'[id].last_updated = clock]_vars

\* {battery: 42, mode: walking} then {battery: 40}: battery 40, mode walking
PartialUpdateWitness ==
    /\ "r1" \in DOMAIN states
    /\ states["r1"].battery = 40
    /\ states["r1"].mode = "walking"
    /\ states["r1"].status = "OK"
    /\ states["r1"].pose = [x |-> 1, y |-> 2, theta |-> 3]
    /\ states["r1"].errors # <<>>

\* C4: every cached entity has 0 <= battery <= 100.
BatteryInRange ==
    \A id \in DOMAIN states : states[id].battery >= 0 /\ states[id].battery <= 100

\* C5: the errors list of an entity has at most 10 entries and is, in order, the
\* last (at most 10) errors added since the last clear.
ErrorsBounded ==
    \A id \in RobotIds :
        IF id \in DOMAIN states
        THEN /\ Len(states[id].errors) <= 10
             /\ states[id].errors = LastN(appended[id], 10)
        ELSE appended[id] = <<>>

\* 15 errors added: the last 10 are left
ErrorsBoundedWitness ==
    /\ Len(appended["r1"]) = 15
    /\ states["r1"].errors = SubSeq(appended["r1"], 6, 15)
    /\ states["r1"].errors[1] # states["r1"].errors[2]
    /\ states["r1"].mode = "walking"

\* C6: every registered connection receives the messages in the order of the
\* broadcast calls.
OrderPreserved ==
    \A ws \in active_connections :
        \A a, b \in 1..Len(inbox[ws]) :
            a < b => inbox[ws][a].src < inbox[ws][b].src

\* C9: a value the cache returned to a reader never changes.
SnapshotsImmutable ==
    \A k \in 1..Len(held) : Deref(held[k]) = held[k].seen

\* the accepted status messages of a robot, by index of their handler
Samples(robot_id) ==
    {i \in 1..Len(tasks) : /\ tasks[i].cat = "status"
                           /\ tasks[i].robot_id = robot_id
                           /\ tasks[i].admitted \in {"admitted", "suppressed"}}

\* the message of handler i's broadcast of type `type` is in the inbox of every
\* registered connection
Delivered(i, type) ==
    \A ws \in active_connections :
        \E k \in 1..Len(inbox[ws]) : inbox[ws][k].src = i /\ inbox[ws][k].type = type

\* C2: the throttle admits a status sample of a robot exactly when at least
\* MinWriteInterval (5) seconds have passed since the last admitted sample of that
\* robot (the first sample is always admitted), so two admitted writes of one
\* robot are never less than 5 seconds apart; the telemetry rows stored for the
\* robot are those of its admitted samples whose commit succeeded.  Two samples
\* 1 second apart therefore leave one row, two samples 6 seconds apart two rows.
ThrottleWindow ==
    \A id \in RobotIds :
        /\ \A j \in Samples(id) :
              tasks[j].admitted = "admitted"
              <=> \A i \in Samples(id) :
                     i < j /\ tasks[i].admitted = "admitted"
                     => tasks[j].now - tasks[i].now >= MinWriteInterval
        /\ \A i, j \in Samples(id) :
              i # j /\ tasks[i].admitted = "admitted" /\ tasks[j].admitted = "admitted"
              => \/ tasks[j].now - tasks[i].now >= MinWriteInterval
                 \/ tasks[i].now - tasks[j].now >= MinWriteInterval
        /\ Cardinality(RowsAbout(telemetry_logs, id))
              = Cardinality({i \in Samples(id) : tasks[i].commit = "ok"})
        /\ \A k \in RowsAbout(telemetry_logs, id) :
              \E i \in Samples(id) : /\ tasks[i].admitted = "admitted"
                                     /\ tasks[i].commit = "ok"
                                     /\ tasks[i].now = telemetry_logs[k].timestamp
        /\ \A k, l \in RowsAbout(telemetry_logs, id) :
              k # l => \/ telemetry_logs[k].timestamp - telemetry_logs[l].timestamp >= MinWriteInterval
                       \/ telemetry_logs[l].timestamp - telemetry_logs[k].timestamp >= MinWriteInterval

\* three samples of r1 at t, t+1 and t+6 have been handled and every commit
\* succeeded: the samples at t and t+6 are stored, the one at t+1 is not
ThrottleWindowWitness ==
    /\ Len(tasks) = 3
    /\ \A i \in 1..3 : tasks[i].robot_id = "r1" /\ tasks[i].pc = "done"
    /\ tasks[2].now = tasks[1].now + 1
    /\ tasks[3].now = tasks[1].now + 6
    /\ tasks[2].admitted = "suppressed"
    /\ Len(telemetry_logs) = 2
    /\ telemetry_logs[1].timestamp = tasks[1].now
    /\ telemetry_logs[2].timestamp = tasks[3].now

\* C7: when the commit of the store write fails while a status, pose or errors
\* message is handled, the handler still ends without an exception, the entity
\* updated in the cache is still there, and the message's broadcast is delivered
\* to every subscriber.
PersistenceFailureIsolated ==
    \A i \in 1..Len(tasks) :
        /\ tasks[i].cat \in {"status", "pose", "errors"}
        /\ tasks[i].commit = "failed"
        /\ tasks[i].pc = "done"
        => /\ ~tasks[i].exc
           /\ tasks[i].cat # "pose" => tasks[i].robot_id \in DOMAIN states
           /\ Delivered(i, CASE tasks[i].cat = "status" -> "telemetry"
                             [] tasks[i].cat = "pose"   -> "pose"
                             [] tasks[i].cat = "errors" -> "error")

\* C8: every accepted status message, its write admitted or suppressed by the
\* throttle, has updated the cached state of its robot and, once its handler has
\* ended, has been broadcast to every subscriber.
ThrottleSuppressesOnlyWrite ==
    \A i \in 1..Len(tasks) :
        tasks[i].cat = "status" /\ tasks[i].admitted \in {"admitted", "suppressed"}
        => /\ tasks[i].robot_id \in DOMAIN states
           /\ tasks[i].pc = "done" => Delivered(i, "telemetry")

\* C10: after an accepted status, pose or errors message about a robot has been
\* handled, the cache holds an entity for that robot.
FirstMessageCreates ==
    \A i \in 1..Len(tasks) :
        /\ tasks[i].cat \in {"status", "pose", "errors"}
        /\ IsDict(tasks[i].payload)
        /\ tasks[i].pc = "done"
        => tasks[i].robot_id \in DOMAIN states

\* C11: in a broadcast call, every subscriber of the call's copy of the registry
\* other than the slow one (whose send never completes) eventually receives the
\* message.
SlowSubscriberIsolated ==
    \A i \in 1..MaxBroadcasts, ws \in Conns :
        (IF i <= Len(tasks) THEN ws \in tasks[i].snap \ slow ELSE FALSE)
        ~> (\E k \in 1..Len(inbox[ws]) : inbox[ws][k].src = i)

\* the cache after the first k messages were applied one after the other, in
\* arrival order
RECURSIVE Applied(_)
Applied(k) ==
    IF k = 0 THEN EmptyDict
    ELSE IF IsDict(tasks[k].payload)
         THEN CacheUpdate(tasks[k].cat, Applied(k - 1), tasks[k].robot_id,
                          tasks[k].payload, tasks[k].now)
         ELSE Applied(k - 1)

\* the handlers that have begun
Begun == {i \in 1..Len(tasks) : tasks[i].pc # "ready"}

\* C12: the handlers begin in arrival order, whatever the earlier ones are
\* suspended in, and the cache is at every moment what applying the messages of
\* the begun handlers one after the other in arrival order gives; so it is, after
\* all are handled, the sequential result over all messages.
ArrivalOrderApplied ==
    /\ Begun = 1..Cardinality(Begun)
    /\ states = Applied(Cardinality(Begun))

\* {battery: 42, mode: walking} and then {battery: 40} arrived for r1 and a third
\* message after them; the first handler is still in its commit when the others
\* have ended: battery 40, mode walking
ArrivalOrderWitness ==
    /\ Len(tasks) = 3
    /\ tasks[1].pc = "commit" /\ tasks[2].pc = "done" /\ tasks[3].pc = "done"
    /\ tasks[1].robot_id = "r1" /\ tasks[2].robot_id = "r1"
    /\ tasks[1].payload = [battery |-> 42, mode |-> "walking"]
    /\ tasks[2].payload = [battery |-> 40]
    /\ tasks[3].cat = "pose" /\ tasks[3].robot_id = "r1"
    /\ states["r1"].battery = 40
    /\ states["r1"].mode = "walking"
    /\ states["r1"].pose.x = 1

\* the handler of message j has ended and every message of its broadcast calls
\* is in the inbox of every registered connection
AllDelivered(j) ==
    /\ tasks[j].pc = "done"
    /\ \A ev \in Range(EventsOf(tasks[j].cat, j, tasks[j].robot_id, tasks[j].payload)) :
          \A ws \in active_connections : Count(inbox[ws], ev) = 1

Malformed(topic, raw) == HandlersFor(topic) = {} \/ raw.kind # "object"

\* C14: receiving a malformed message raises no exception, leaves the cache and
\* the store as they were and sends nothing to any subscriber.
MalformedDropped ==
    [][\A topic \in IngestTopics, raw \in IngestRaws :
          (Malformed(topic, raw) /\ OnMessage(topic, raw)) =>
              /\ unhandled' = unhandled
              /\ \A i \in 1..Len(tasks') : ~tasks'[i].exc
              /\ UNCHANGED <<states, storeVars, inbox>>]_vars

\* the malformed messages received so far (every decoded message is in `events`,
\* every undecodable one has raised)
MalformedReceived ==
    unhandled + Cardinality({k \in 1..Len(events) :
                                \/ HandlersFor(events[k].topic) = {}
                                \/ ~IsDict(events[k].payload)})

\* C15: the malformed-message counter is the number of malformed messages
\* received: each one adds exactly 1, a well-formed message adds nothing.
MalformedCounted == malformed_count = MalformedReceived

\* the messages that handler i's broadcast calls left in the inbox of ws
EventsFrom(i, ws) == {k \in 1..Len(inbox[ws]) : inbox[ws][k].src = i}

\* C16: when the handler of a pose message has ended, every subscriber holds
\* exactly one message of that handler: its type is "pose", its robot_id is the
\* id in the topic and its data is the payload of the message as sent (so
\* data.pose.x is the x sent).
PoseDeliveredOnce ==
    \A i \in 1..Len(tasks) :
        (tasks[i].cat = "pose" /\ tasks[i].pc = "done") =>
            \A ws \in active_connections :
                /\ Cardinality(EventsFrom(i, ws)) = 1
                /\ \A k \in EventsFrom(i, ws) :
                      /\ inbox[ws][k].type = "pose"
                      /\ inbox[ws][k].robot_id = RobotIdOf(tasks[i].topic, tasks[i].payload)
                      /\ inbox[ws][k].data = tasks[i].payload

\* two subscribers; a pose message of r2 with x = 7, handled after another
\* message, left one "pose" event with data.pose.x = 7 in each inbox
PoseDeliveredOnceWitness ==
    /\ active_connections = {"w1", "w2"}
    /\ Len(tasks) = 2
    /\ tasks[1].pc = "done"
    /\ tasks[2].cat = "pose" /\ tasks[2].pc = "done" /\ tasks[2].payload.pose.x = 7
    /\ \A ws \in {"w1", "w2"} :
          /\ Cardinality(EventsFrom(2, ws)) = 1
          /\ \A k \in EventsFrom(2, ws) :
                /\ inbox[ws][k].type = "pose"
                /\ inbox[ws][k].robot_id = "r2"
                /\ inbox[ws][k].data.pose.x = 7

\* the error messages received so far, by index of their handler
ErrorMessages == {i \in 1..Len(tasks) : tasks[i].cat = "errors" /\ IsDict(tasks[i].payload)}

\* C17: error messages are never throttled.  Every error message, however soon
\* after the one before, appends one entry to the robot's cached error list
\* (which keeps the last 10), stores one error record when its commit succeeds
\* (the stored log grows past 10) and, when its handler has ended, has sent one
\* "error" event carrying the payload to every subscriber; no throttle timestamp
\* is read or set.
ErrorsUnthrottled ==
    /\ Len(appended["r1"]) = Cardinality(ErrorMessages)
    /\ ErrorMessages # {} => states["r1"].errors = LastN(appended["r1"], MaxErrorsKept)
    /\ Len(error_logs) = Cardinality({i \in ErrorMessages : tasks[i].commit = "ok"})
    /\ \A k \in 1..Len(error_logs) :
          /\ error_logs[k].robot_id = "r1"
          /\ error_logs[k].error_type = "NAVIGATION"
          /\ error_logs[k].error_message = "Path planning failed"
    /\ \A i \in ErrorMessages :
          tasks[i].pc = "done" =>
              \A ws \in active_connections :
                  /\ Cardinality(EventsFrom(i, ws)) = 1
                  /\ \A k \in EventsFrom(i, ws) :
                        /\ inbox[ws][k].type = "error"
                        /\ inbox[ws][k].robot_id = "r1"
                        /\ inbox[ws][k].error = tasks[i].payload
    /\ last_db_write = EmptyDict

\* eleven error messages in one second, every commit succeeded: eleven records
\* are stored and eleven events sent, the cached list holds ten
ErrorsUnthrottledWitness ==
    /\ Len(tasks) = 11
    /\ \A i \in 1..11 : tasks[i].pc = "done" /\ tasks[i].now = StartTime
    /\ Len(error_logs) = 11
    /\ Len(inbox["w1"]) = 11
    /\ Len(states["r1"].errors) = 10

\* the categories that are relayed only
Presentation == {"joints", "gps", "battery", "health"}

\* C18: a joints, gps, battery or health message is only relayed.  Its handler
\* never awaits a commit and puts no row in a session, receiving it changes
\* neither the store nor the cache nor any throttle timestamp, and when the
\* handler has ended every subscriber holds at least one event of it, the first
\* of them with the category as type and the payload as data.
PresentationOnly ==
    /\ [](\A i \in 1..Len(tasks) :
            tasks[i].cat \in Presentation =>
                /\ tasks[i].pc # "commit"
                /\ tasks[i].session = <<>>
                /\ tasks[i].commit = "none"
                /\ tasks[i].pc = "done" =>
                       \A ws \in active_connections :
                           \E k \in EventsFrom(i, ws) :
                               /\ inbox[ws][k].type = tasks[i].cat
                               /\ inbox[ws][k].data = tasks[i].payload)
    /\ [][\A cat \in Presentation :
             \A payload \in Payloads(cat) :
                 Handle(cat, Topic(cat, "r1"), payload) =>
                     UNCHANGED <<states, storeVars, last_db_write>>]_vars

\* after a status message that was stored, a gps message was relayed as a "gps"
\* and a "pose_update" event; the store and the throttle are as the status
\* message left them
PresentationOnlyWitness ==
    /\ Len(tasks) = 2
    /\ tasks[1].cat = "status" /\ tasks[1].commit = "ok"
    /\ tasks[2].cat = "gps" /\ tasks[2].pc = "done"
    /\ Cardinality(EventsFrom(2, "w1")) = 2
    /\ Len(telemetry_logs) = 1
    /\ DOMAIN last_db_write = {Key("r1")}
    /\ last_db_write[Key("r1")] = tasks[1].now

\* the complete pose messages of a robot, by index of their handler
PoseSamples(robot_id) ==
    {i \in 1..Len(tasks) : /\ tasks[i].cat = "pose"
                           /\ tasks[i].robot_id = robot_id
                           /\ tasks[i].admitted \in {"admitted", "suppressed"}}

\* C19: a pose message changes, in the cache, only the pose and last_updated of
\* its robot when the robot is cached (mode, status, battery and errors stay, no
\* robot is added), and in the throttle only the robot's pose timestamp.  Its
\* write is admitted exactly when 5 seconds have passed since the last admitted
\* pose write of the same robot, whatever status messages were written meanwhile;
\* a status message leaves the pose timestamps alone.
PoseOnly ==
    /\ [](\A id \in RobotIds :
            /\ \A j \in PoseSamples(id) :
                  tasks[j].admitted = "admitted"
                  <=> \A i \in PoseSamples(id) :
                         i < j /\ tasks[i].admitted = "admitted"
                         => tasks[j].now - tasks[i].now >= MinWriteInterval
            /\ Cardinality(RowsAbout(path_logs, id))
                  = Cardinality({i \in PoseSamples(id) : tasks[i].commit = "ok"}))
    /\ [][\A id \in RobotIds :
             /\ Handle("pose", Topic("pose", id), TrackPayloads("pose")) =>
                   /\ DOMAIN states' = DOMAIN states
                   /\ \A r \in DOMAIN states :
                         /\ r # id => states'[r] = states[r]
                         /\ states'[r].mode = states[r].mode
                         /\ states'[r].status = states[r].status
                         /\ states'[r].battery = states[r].battery
                         /\ states'[r].errors = states[r].errors
                   /\ id \in DOMAIN states =>
                         /\ states'[id].pose = [x |-> 4, y |-> 5, theta |-> 6]
                         /\ states'[id].last_updated = clock
                   /\ \A key \in DOMAIN last_db_write' :
                         key # PoseKey(id) =>
                             /\ key \in DOMAIN last_db_write
                             /\ last_db_write'[key] = last_db_write[key]
             /\ Handle("status", Topic("status", id), TrackPayloads("status")) =>
                   \A r \in RobotIds :
                       Get(last_db_write', PoseKey(r), 0) = Get(last_db_write, PoseKey(r), 0)]_vars

\* r1 is cached with mode, status and battery; its status message was stored in
\* the same second in which its pose message was stored too, and a second pose
\* message a second later was suppressed
PoseOnlyWitness ==
    /\ Len(tasks) = 3
    /\ \A i \in 1..3 : tasks[i].pc = "done" /\ tasks[i].robot_id = "r1"
    /\ tasks[1].cat = "status" /\ tasks[1].commit = "ok"
    /\ tasks[2].cat = "pose" /\ tasks[2].commit = "ok" /\ tasks[2].now = tasks[1].now
    /\ tasks[3].cat = "pose" /\ tasks[3].admitted = "suppressed"
    /\ tasks[3].now = tasks[2].now + 1
    /\ states["r1"].pose = [x |-> 4, y |-> 5, theta |-> 6]
    /\ states["r1"].mode = "walking" /\ states["r1"].battery = 40
    /\ states["r1"].last_updated = tasks[3].now
    /\ Len(path_logs) = 1 /\ Len(telemetry_logs) = 1

\* C20: telemetry with a pose, applied to an entity that is cached, overwrites
\* the pose components present in the message and leaves the omitted ones at
\* their cached values.
PoseComponentsKept ==
    [][\A id \in RobotIds, t \in PartialTelemetry :
          ("pose" \in DOMAIN t /\ id \in DOMAIN states /\ UpdateStateCall(id, t)) =>
              \A k \in {"x", "y", "theta"} :
                  states'[id].pose[k] = IF k \in DOMAIN t.pose THEN t.pose[k]
                                        ELSE states[id].pose[k]]_vars

\* C21: the telemetry rows stored for a robot are, in the order in which they
\* were stored, non-decreasing in their timestamp.
SamplesMonotonic ==
    \A id \in RobotIds :
        \A k, l \in RowsAbout(telemetry_logs, id) :
            k < l => telemetry_logs[k].timestamp <= telemetry_logs[l].timestamp

\* C22: a history query of an entity with a limit returns at most `limit` items,
\* all of them rows of that entity, the most recent ones, most recent first.
HistoryMostRecentFirst ==
    reply.call \in {"get_robot_path", "get_battery_history", "get_robot_errors"} =>
        LET table == TableOf(reply.call)
            items == reply.items
            idx   == RowsAbout(table, reply.robot_id)
        IN /\ Len(items) <= reply.limit
           /\ \A a \in 1..Len(items) : items[a].src \in idx
           /\ \A a, b \in 1..Len(items) :
                 a < b => table[items[a].src].timestamp >= table[items[b].src].timestamp
           /\ \A k \in idx \ {items[a].src : a \in 1..Len(items)} :
                 \A a \in 1..Len(items) : table[k].timestamp <= table[items[a].src].timestamp

\* C23: the broadcast of a status or pose message does not wait for the store
\* write: while the handler is suspended in db_session.commit(), the message's
\* event is already in the inbox of every subscriber.
BroadcastOffStorePath ==
    \A i \in 1..Len(tasks) :
        (tasks[i].cat \in {"status", "pose"} /\ tasks[i].pc = "commit") =>
            Delivered(i, IF tasks[i].cat = "status" THEN "telemetry" ELSE "pose")

\* C24: no function has read or assigned the fields of a cached RobotState
\* without holding the cache's lock.
AllUnderLock == unlocked = {}

\* the handlers that passed the throttle check on the entry `key`
Passed(key) ==
    {i \in 1..Len(tasks) : /\ tasks[i].cat \in {"status", "pose"}
                           /\ tasks[i].admitted = "admitted"
                           /\ ThrottleKey(tasks[i].cat, tasks[i].robot_id) = key}

\* C25: of the handlers that run concurrently for one robot, no two pass the
\* throttle check on the same entry less than 5 seconds apart, however they are
\* scheduled and however long their commits take; the entry holds the time of
\* the last one that passed.
ThrottleAtomic ==
    \A key \in {Key("r1"), PoseKey("r1")} :
        /\ \A i, j \in Passed(key) :
              i < j => tasks[j].now - tasks[i].now >= MinWriteInterval
        /\ Passed(key) # {} =>
              /\ key \in DOMAIN last_db_write
              /\ \A i \in Passed(key) : tasks[i].now <= last_db_write[key]
              /\ \E i \in Passed(key) : tasks[i].now = last_db_write[key]

\* the first status handler of r1 is still in its commit; a second status message
\* was checked in the same second and suppressed, a third 5 seconds later passed
\* and is in its commit too
ThrottleAtomicWitness ==
    /\ Len(tasks) = 3
    /\ \A i \in 1..3 : tasks[i].cat = "status"
    /\ tasks[1].pc = "commit" /\ tasks[3].pc = "commit"
    /\ tasks[2].admitted = "suppressed" /\ tasks[2].now = tasks[1].now
    /\ tasks[3].now = tasks[1].now + 5

DisconnectIdempotent ==
    [][\A ws \in RegistryConns :
          disconnect(ws) =>
              /\ ~reply'.raised
              /\ active_connections' = active_connections \ {ws}
              /\ ws \notin active_connections =>
                    UNCHANGED <<active_connections, tasks, inbox, broken>>
              /\ discard(active_connections', ws).reg = active_connections'
              /\ ~discard(active_connections', ws).raised]_vars

\* w1 was pruned by the broadcast whose send to it raised, and disconnect(w1)
\* was called afterwards: nothing was removed, nothing raised, w2 is still there
DisconnectIdempotentWitness ==
    /\ reply = [call |-> "disconnect", ws |-> "w1", raised |-> FALSE, removed |-> FALSE]
    /\ Len(tasks) >= 1
    /\ tasks[1].pc = "done" /\ "w1" \in tasks[1].raised
    /\ active_connections = {"w2"}

\* C28: a connection whose endpoint loop has ended leaves the registry.  Left by
\* WebSocketDisconnect, it is unregistered by the endpoint at once.  Left by any
\* other exception, it stays registered only as a connection whose sends raise:
\* every broadcast begun from then on has it in its copy, delivers nothing to
\* it, and has removed it when it returns.
EndedConnectionRemoved ==
    /\ [](\A ws \in Conns :
            (ws \in active_connections /\ ws \notin running) => ws \in broken)
    /\ [](\A i \in 1..Len(tasks) :
            tasks[i].pc = "done" =>
                \A ws \in tasks[i].snap :
                    /\ ws \in tasks[i].raised => ws \notin active_connections
                    /\ EventsFrom(i, ws) = {} => ws \in tasks[i].raised)
    /\ [][/\ \A ws \in RegistryConns :
               websocket_endpoint_exit(ws, "WebSocketDisconnect")
                   => ws \notin active_connections'
          /\ \A ws \in Conns : ws \in broken => inbox'[ws] = inbox[ws]
          /\ (Len(tasks') = Len(tasks) + 1 /\ active_connections # {})
                => tasks'[Len(tasks')].snap = active_connections]_vars

\* the endpoint of w1 was left by an AttributeError while w1 was registered; the
\* next broadcast had w1 in its copy, its send to w1 raised, and w1 is out of
\* the registry
EndedConnectionRemovedWitness ==
    /\ reply = [call |-> "websocket_endpoint", ws |-> "w1", exc |-> "AttributeError",
                registered |-> TRUE]
    /\ Len(tasks) = 1
    /\ tasks[1].pc = "done" /\ "w1" \in tasks[1].raised
    /\ EventsFrom(1, "w1") = {}
    /\ "w1" \notin active_connections
    /\ "w1" \notin running

\* the fields of a cached robot other than its errors
OtherFields == {"robot_id", "mode", "status", "battery", "pose", "last_updated"}

\* C29: clearing the errors of a robot leaves its errors list empty and changes
\* no other field of it, no other robot and not the set of cached ids; for an id
\* that is not cached it changes nothing; it never raises.
ClearErrorsFrame ==
    [][\A id \in RobotIds :
          clear_robot_errors(id) =>
              /\ reply'.raised = FALSE
              /\ DOMAIN states' = DOMAIN states
              /\ \A o \in DOMAIN states :
                    /\ states'[o].errors = IF o = id THEN <<>> ELSE states[o].errors
                    /\ \A f \in OtherFields : states'[o][f] = states[o][f]]_vars

\* r1 was just cleared, keeping its battery, while r2 keeps its error
ClearErrorsFrameWitness ==
    /\ reply = [call |-> "clear_robot_errors", robot_id |-> "r1", raised |-> FALSE,
                known |-> TRUE]
    /\ DOMAIN states = {"r1", "r2"}
    /\ states["r1"].errors = <<>>
    /\ states["r1"].battery = 42
    /\ Len(states["r2"].errors) = 1

\* C30: the telemetry events about one robot are in every subscriber's inbox in
\* the order in which their status messages arrived.
TelemetryInArrivalOrder ==
    \A i \in 1..Len(tasks), j \in 1..Len(tasks) :
        (/\ i < j
         /\ tasks[i].cat = "status" /\ tasks[j].cat = "status"
         /\ tasks[i].robot_id = tasks[j].robot_id) =>
            \A ws \in Conns :
                \A a \in EventsFrom(i, ws), b \in EventsFrom(j, ws) :
                    (inbox[ws][a].type = "telemetry" /\ inbox[ws][b].type = "telemetry")
                        => a < b

\* C31: a store write that fails does not consume the throttle window: the
\* last-write time of an entry is never the time of a sample whose commit
\* raised, so a later sample within MinWriteInterval of it is not suppressed.
FailedWriteKeepsWindow ==
    \A key \in DOMAIN last_db_write :
        \E i \in Passed(key) :
            /\ tasks[i].now = last_db_write[key]
            /\ tasks[i].commit # "failed"

\* C32: update_state is all-or-nothing: when applying a status message raises
\* partway, the cache is as it was before the call (no field of the robot has
\* changed, no robot has been created).
UpdateAllOrNothing ==
    [][\A payload \in FaultPayloads("status") :
          (/\ IsDict(payload)
           /\ UpdateRaises(payload)
           /\ Handle("status", Topic("status", "r1"), payload))
              => states' = states]_vars

\* C33: a message published on a topic that a handler registered at startup
\* matches is received and dispatched: it is recorded and its handler is
\* scheduled.
HandledTopicsSubscribed ==
    [][\A cat \in Categories :
          \A payload \in Payloads(cat) :
              Publish(Topic(cat, "r1"), [kind |-> "object", value |-> payload])
                  => /\ Len(events') = Len(events) + 1
                     /\ Len(tasks') = Len(tasks) + 1
                     /\ tasks'[Len(tasks')].cat = cat]_vars

\* C34: a teleop command being handled can always go on: while _handle_command
\* holds the simulator's lock its thread is never left waiting, so the handler
\* ends and releases the lock.
CommandHandlerProceeds ==
    sim.lock = "mqtt" => ENABLED publish_telemetry("mqtt")

\* the patterns among `handlers` that match the topic, in the dict's order
MatchingIn(handlers, topic) ==
    SelectSeq([k \in 1..Len(handlers) |-> handlers[k].pattern],
              LAMBDA pattern : FnMatch(topic, pattern))

\* C35: a handler registered while a message is being dispatched does not make
\* the dispatch fail, nor skip a handler that was registered when the message
\* arrived: once the dispatch has ended, no exception has left it and every
\* matching handler of that time has been called.
RegisterDuringDispatch ==
    LET mh == message_handlers IN
    (~mh.active /\ mh.topic # <<>>) =>
        /\ ~mh.failed
        /\ Range(MatchingIn(mh.known, mh.topic)) \subseteq Range(mh.invoked)

\* C38: when the dispatch of a message has ended, the handlers called are
\* exactly the handlers registered at its arrival whose pattern matches the
\* topic, each one once, and no exception has left the dispatch, whatever the synchronous
\* handlers raised.
DispatchExact ==
    LET mh == message_handlers IN
    (~mh.active /\ mh.topic # <<>>) =>
        /\ ~mh.failed
        /\ mh.invoked = MatchingIn(mh.known, mh.topic)

\* C36: is_connected() is true exactly when the most recent connection event
\* was a successful connect; reconnection_count goes up by one on a disconnect
\* with rc # 0, is unchanged by one with rc = 0 and is 0 after every successful
\* connect.
ConnectionTracked ==
    /\ [](mqtt.connected <=> mqtt.last = "connect_ok")
    /\ [][/\ \A rc \in {1, 7} :
               on_disconnect(rc) =>
                   mqtt'.reconnection_count = mqtt.reconnection_count + 1
          /\ on_disconnect(0) => mqtt'.reconnection_count = mqtt.reconnection_count
          /\ on_connect(0) => mqtt'.reconnection_count = 0]_vars

\* a connect was refused and the connection was then reported lost twice: two
\* reconnections counted, not connected
ConnectionTrackedWitness ==
    /\ mqtt.reconnection_count = 2
    /\ mqtt.last = "disconnect"
    /\ ~mqtt.connected
    /\ mqtt.connection_error # ""

\* 2^n
RECURSIVE Pow2(_)
Pow2(n) == IF n = 0 THEN 1 ELSE 2 * Pow2(n - 1)

\* C37: start() always terminates: it makes at most MaxRetries attempts, the
\* waits between them being 1, 2, 4, 8 s; wherever it is, its next step can be
\* taken; it returns normally only after wait() found the connected flag set,
\* unless it returned at its first line because the loop thread was alive, and
\* then it made no attempt; it raises only after the last attempt failed, and
\* then no loop thread is recorded.
StartTerminates ==
    LET st == mqtt.start IN
    /\ st.attempt \in 0..(MaxRetries - 1)
    /\ Len(st.slept) = st.attempt
    /\ \A k \in 1..Len(st.slept) : st.slept[k] = Pow2(k - 1)
    /\ st.pc = "try" => \A raises \in BOOLEAN : ENABLED start_try(raises)
    /\ st.pc = "wait" => ENABLED start_wait
    /\ (st.pc = "returned" /\ ~st.noop) => st.waited
    /\ st.noop => (st.pc = "returned" /\ st.attempt = 0 /\ st.slept = <<>>)
    /\ st.pc = "raised" => (st.attempt = MaxRetries - 1 /\ mqtt.loop_thread = "none")

\* the fifth attempt has failed after waits of 1, 2, 4 and 8 s: start() raised
StartTerminatesWitness ==
    /\ mqtt.start.pc = "raised"
    /\ mqtt.start.slept = <<1, 2, 4, 8>>
    /\ mqtt.loop_thread = "none"
    /\ ~mqtt.connected

\* the smaller and the larger of two numbers
Smaller(a, b) == IF a < b THEN a ELSE b
Larger(a, b)  == IF a > b THEN a ELSE b

\* C39: the buffer never holds more than max_recorded_events entries; every
\* received message, whether a handler matches its topic or not, becomes its
\* newest entry, the oldest one leaving when the buffer is full; and
\* get_recent_events(limit) returns the last min(max(limit, 1),
\* max_recorded_events) entries, oldest first.
EventsRecorded ==
    /\ [](Len(events) <= MaxRecordedEvents)
    /\ [][/\ \A topic \in IngestTopics, raw \in IngestRaws :
               OnMessage(topic, raw) =>
                   /\ Len(events') = Smaller(Len(events) + 1, MaxRecordedEvents)
                   /\ events'[Len(events')].topic = topic
                   /\ \A k \in 1..(Len(events') - 1) :
                         events'[k] = events[k + Len(events) + 1 - Len(events')]
          /\ \A limit \in 0..MaxLimit :
               GetRecentEvents(limit) =>
                   LET n == Smaller(Smaller(Larger(limit, 1), MaxRecordedEvents), Len(events))
                   IN /\ Len(reply'.body) = n
                      /\ \A k \in 1..n : reply'.body[k] = events[Len(events) - n + k]]_vars

\* C40: the commands processed, then those the command loop has taken, then
\* those still queued are, in this order, the commands accepted, each one once
\* and in the order it was queued: none is lost, none is processed twice, none
\* overtakes another.
CommandsOnceInOrder ==
    LET all == [k \in 1..Len(server.commands) |-> server.commands[k].command]
               \o server.batch \o server.command_queue
    IN /\ Len(all) = server.accepted
       /\ \A k \in 1..Len(all) : all[k].seq = k

\* a command was queued while the loop was processing the batch it had taken:
\* one command processed, one taken and not yet processed, one queued
CommandsOnceInOrderWitness ==
    /\ Len(server.commands) = 2
    /\ Len(server.batch) = 1
    /\ Len(server.command_queue) = 1
    /\ server.commands[2].result.status = "ERROR"

=============================================================================
